---- MODULE Spec2Model ----
(***************************************************************************)
(* Model of AnalyzerService (src/unnamed/part_000): the analysis           *)
(* orchestrator analyze(), the generation orchestrator                     *)
(* generateIacDocument(), the two cancellation subjects and the            *)
(* best-practice taxonomy cache.                                           *)
(*                                                                         *)
(* Strings are sequences of one-character strings, so that the slug and    *)
(* key conversions are computed character by character.                    *)
(*                                                                         *)
(* One action is one run-to-completion segment of the single-threaded      *)
(* event loop: it starts where an awaited external call settles and runs   *)
(* to the next await of an external call, to a return or to a throw.       *)
(* Awaits that only yield to the microtask queue (an already settled       *)
(* promise) are part of the segment, since no request handler can run in   *)
(* between.                                                                *)
(***************************************************************************)
EXTENDS Integers, Sequences, FiniteSets, TLC

(***************************************************************************)
(* Bounds of the model                                                     *)
(***************************************************************************)
MaxPillars == 2

MaxIterations == 3
\* iterations of one long generation run: the progress reaches its cap of 90
\* at the tenth iteration and a run collects more than ten sections
MaxLongRun == 12
\* the largest number of items selected for getMoreDetails()
MaxItems == 2
\* the largest number of model turns getMoreDetails() spends on one item
MaxTurns == 2
\* the longest taxonomy handed to retrieveBestPractices
MaxEntries == 3
\* the longest name handed to generateFallbackBestPracticeId
MaxNameLen == 4
\* the longest text handed to cleanJsonString, in tokens
MaxJsonLen == 4

\* model output handed to the section parser is made of up to MaxPieces
\* lines and markers
MaxPieces == 4

\* a workload answer lists up to MaxChoices choices
MaxChoices == 2

(***************************************************************************)
(* Strings                                                                 *)
(***************************************************************************)
LowerAlnum == {"a", "b", "c", "f", "o", "q", "r", "x", "y", "z", "w", "0", "1", "2", "3"}

Whitespace == {" ", "\t"}

AllChars == LowerAlnum \cup Whitespace \cup {"A", "B", "C", "F", "Q", "X", "-", "!", "|"}

LowerCaseChar(c) ==
    CASE c = "A" -> "a"
      [] c = "B" -> "b"
      [] c = "C" -> "c"
      [] c = "F" -> "f"
      [] c = "Q" -> "q"
      [] c = "X" -> "x"
      [] OTHER -> c

toLowerCase(s) == [i \in 1..Len(s) |-> LowerCaseChar(s[i])]

\* s.replace(/[M]+/g, rep): every maximal run of characters of M becomes rep
RECURSIVE ReplaceRunsFrom(_, _, _, _)
ReplaceRunsFrom(s, M, rep, i) ==
    IF i > Len(s) THEN <<>>
    ELSE IF s[i] \in M
         THEN (IF i > 1 /\ s[i - 1] \in M THEN <<>> ELSE <<rep>>)
              \o ReplaceRunsFrom(s, M, rep, i + 1)
         ELSE <<s[i]>> \o ReplaceRunsFrom(s, M, rep, i + 1)

ReplaceRuns(s, M, rep) == ReplaceRunsFrom(s, M, rep, 1)

\* mutant of StripHyphens: only a leading hyphen is removed
StripLeadingHyphen(s) ==
    IF Len(s) > 0 /\ s[1] = "-" THEN Tail(s) ELSE s

\* s.replace(/^-|-$/g, '')
StripHyphens(s) ==
    LET a == IF Len(s) > 0 /\ s[1] = "-" THEN Tail(s) ELSE s
    IN  IF Len(a) > 0 /\ a[Len(a)] = "-" THEN SubSeq(a, 1, Len(a) - 1) ELSE a

generateFallbackBestPracticeId(name) ==
    StripHyphens(ReplaceRuns(toLowerCase(name), AllChars \ LowerAlnum, "-"))

\* bp.Pillar.toLowerCase().replace(/\s+/g, '-')
PillarSlug(pillar) == ReplaceRuns(toLowerCase(pillar), Whitespace, "-")

(***************************************************************************)
(* External data: the base taxonomy object and the workload answers        *)
(***************************************************************************)
PillarAB == <<"A", " ", "b">>
PillarC  == <<"C">>
Q1 == <<"Q", "1">>
Q2 == <<"Q", "2">>
Q3 == <<"Q", "3">>
BPx == <<"X", " ", "x">>
BPy == <<"y">>
BPz == <<"z">>

\* well_architected_best_practices.json: Q1 and Q2 share a practice title,
\* and the entries of Q1 are not adjacent
BaseBestPractices ==
    << [Pillar |-> PillarAB, Question |-> Q1, BestPractice |-> BPx],
       [Pillar |-> PillarAB, Question |-> Q2, BestPractice |-> BPx],
       [Pillar |-> PillarAB, Question |-> Q1, BestPractice |-> BPy],
       [Pillar |-> PillarC,  Question |-> Q3, BestPractice |-> BPz] >>

Workloads == {"w1", "w2"}

\* ListAnswers of each workload: w1 has answers for Q1 and Q2, w2 for Q1 only
AnswerSummaries(w) ==
    IF w = "w1"
    THEN << [QuestionTitle |-> Q1, QuestionId |-> <<"q", "a", "1">>,
             Choices |-> << [Title |-> BPx, ChoiceId |-> <<"c", "a", "1">>],
                            [Title |-> BPy, ChoiceId |-> <<"c", "a", "2">>] >>],
            [QuestionTitle |-> Q2, QuestionId |-> <<"q", "a", "2">>,
             Choices |-> << [Title |-> BPx, ChoiceId |-> <<"c", "a", "3">>] >>] >>
    ELSE << [QuestionTitle |-> Q1, QuestionId |-> <<"q", "b", "1">>,
             Choices |-> << [Title |-> BPx, ChoiceId |-> <<"c", "b", "1">>],
                            [Title |-> BPy, ChoiceId |-> <<>>] >>] >>

(***************************************************************************)
(* loadBestPractices: the two lookup maps and the enrichment               *)
(***************************************************************************)
\* mutant of UniqueKey: the key is the practice title alone
UniqueKeyTitleOnly(question, practice) == practice

\* lines 1463 and 1471: `${question}|||${practice}`
UniqueKey(question, practice) == question \o <<"|", "|", "|">> \o practice

\* the (key, value) pairs in the order of the Map.set calls
QuestionIdEntries(answers) ==
    [i \in 1..Len(answers) |->
        [key |-> answers[i].QuestionTitle, val |-> answers[i].QuestionId]]

RECURSIVE ChoiceIdEntries(_)
ChoiceIdEntries(answers) ==
    IF answers = <<>> THEN <<>>
    ELSE LET a == Head(answers)
             ok == SelectSeq(a.Choices, LAMBDA c : c.Title # <<>> /\ c.ChoiceId # <<>>)
         IN  [i \in 1..Len(ok) |->
                 [key |-> UniqueKey(a.QuestionTitle, ok[i].Title), val |-> ok[i].ChoiceId]]
             \o ChoiceIdEntries(Tail(answers))

\* map.get(key) || fallback: the last value set for the key, when non-empty
MapGetOr(entries, key, fallback) ==
    LET hits == {i \in 1..Len(entries) : entries[i].key = key}
    IN  IF hits = {} THEN fallback
        ELSE LET last == CHOOSE i \in hits : \A j \in hits : j <= i
             IN  IF entries[last].val = <<>> THEN fallback ELSE entries[last].val

EnrichBestPractice(bp, answers) ==
    [Pillar |-> bp.Pillar,
     Question |-> bp.Question,
     BestPractice |-> bp.BestPractice,
     bestPracticeId |->
        MapGetOr(ChoiceIdEntries(answers), UniqueKey(bp.Question, bp.BestPractice),
                 generateFallbackBestPracticeId(bp.Question \o <<"-">> \o bp.BestPractice)),
     questionId |->
        MapGetOr(QuestionIdEntries(answers), bp.Question,
                 generateFallbackBestPracticeId(bp.Question))]

EnrichedBestPractices(base, answers) ==
    [i \in 1..Len(base) |-> EnrichBestPractice(base[i], answers)]

(***************************************************************************)
(* retrieveBestPractices: filter by pillar slug, group by question         *)
(***************************************************************************)
FilterByPillar(all, pillarId) ==
    SelectSeq(all, LAMBDA bp : PillarSlug(bp.Pillar) = pillarId)

\* the keys of the questionGroups Map, in insertion order
RECURSIVE QuestionOrder(_, _)
QuestionOrder(bps, seen) ==
    IF bps = <<>> THEN seen
    ELSE QuestionOrder(Tail(bps),
            IF \E k \in 1..Len(seen) : seen[k] = Head(bps).Question
            THEN seen ELSE Append(seen, Head(bps).Question))

FirstOf(bps, question) ==
    bps[CHOOSE i \in 1..Len(bps) :
            /\ bps[i].Question = question
            /\ \A j \in 1..(i - 1) : bps[j].Question # question]

\* mutant of QuestionGroupOf: the ids are listed in the opposite order
QuestionGroupOfIdsReversed(bps, question) ==
    LET mine == SelectSeq(bps, LAMBDA bp : bp.Question = question)
    IN  [pillar |-> bps[1].Pillar,
         title |-> question,
         questionId |-> FirstOf(bps, question).questionId,
         bestPractices |-> [i \in 1..Len(mine) |-> mine[i].BestPractice],
         bestPracticeIds |-> [i \in 1..Len(mine) |-> mine[Len(mine) + 1 - i].bestPracticeId]]

QuestionGroupOf(bps, question) ==
    LET mine == SelectSeq(bps, LAMBDA bp : bp.Question = question)
    IN  [pillar |-> bps[1].Pillar,
         title |-> question,
         questionId |-> FirstOf(bps, question).questionId,
         bestPractices |-> [i \in 1..Len(mine) |-> mine[i].BestPractice],
         bestPracticeIds |-> [i \in 1..Len(mine) |-> mine[i].bestPracticeId]]

retrieveBestPractices(all, pillarId) ==
    LET bps == FilterByPillar(all, pillarId)
        qs == QuestionOrder(bps, <<>>)
    IN  [k \in 1..Len(qs) |-> QuestionGroupOf(bps, qs[k])]

(***************************************************************************)
(* State                                                                   *)
(***************************************************************************)
VARIABLES
    cachedBestPractices,  \* the service's taxonomy cache (null until first load)
    storageEnabled,       \* configuration flag read by the constructor
    workItems,            \* storage: the work item of each file
    analysisStore,        \* storage: the results stored for each file
    iacStore,             \* storage: the document stored for each file
    an,                   \* the analyze() call of each run
    gen,                  \* the generateIacDocument() call of each run
    details,              \* the getMoreDetails() call
    pure                  \* a call of one of the service's pure helpers

vars == <<cachedBestPractices, storageEnabled, workItems,
          analysisStore, iacStore, an, gen, details, pure>>

\* The service handles up to two calls of a kind at a time; each call works on
\* its own file, named like the slot of the call.
Runs == {"r1", "r2"}

NoError == [kind |-> "none"]

NullCache == [loaded |-> FALSE, workload |-> "none", bps |-> <<>>]

PillarIds == {PillarSlug(PillarAB), PillarSlug(PillarC), <<"z">>}

RECURSIVE SeqsUpTo(_, _)
SeqsUpTo(S, n) ==
    IF n = 0 THEN {<<>>}
    ELSE LET shorter == SeqsUpTo(S, n - 1)
         IN  shorter \cup {Append(s, x) : s \in shorter, x \in S}

PillarLists == SeqsUpTo(PillarIds, MaxPillars)

InitWorkItem ==
    [analysisStatus |-> "PENDING", analysisProgress |-> 0,
     analysisError |-> NoError, analysisPartialResults |-> FALSE,
     iacGenerationStatus |-> "PENDING", iacGenerationProgress |-> 0,
     iacGenerationError |-> NoError, iacPartialResults |-> FALSE]

IdleAnalysis ==
    [pc |-> "idle", handler |-> "none", userId |-> FALSE, workloadId |-> "none",
     selectedPillars |-> <<>>, workItem |-> "undefined", results |-> <<>>,
     pillarQuestionGroups |-> <<>>, totalQuestions |-> 0, processedQuestions |-> 0,
     i |-> 1, j |-> 1, cancelPromise |-> "none", error |-> NoError,
     outcome |-> "none", ret |-> [results |-> <<>>, isCancelled |-> FALSE, error |-> NoError],
     \* history of the run, read by the properties only
     retrievals |-> <<>>, inferences |-> <<>>, lastStoreArg |-> <<>>, storeCalls |-> 0,
     statusWrites |-> <<>>, progressEvents |-> <<>>, storageFault |-> FALSE,
     cancelUnheard |-> FALSE, cancelHeardAt |-> "none", cancelObserved |-> FALSE,
     foreignCancel |-> FALSE, cancelHeardQuestion |-> 0, inFlight |-> "none",
     callFault |-> "none", failedAt |-> 0, fetches |-> 0, cancelledBefore |-> FALSE]

(***************************************************************************)
(* analyze(): pure helpers                                                 *)
(***************************************************************************)
\* mutant of RoundPercent: truncation instead of rounding
RoundPercentTruncated(processed, total) ==
    IF total = 0 THEN -1 ELSE (100 * processed) \div total

\* Math.round((processed / total) * 100)
RoundPercent(processed, total) ==
    IF total = 0 THEN -1 ELSE (200 * processed + total) \div (2 * total)

RECURSIVE SumLen(_)
SumLen(groups) == IF groups = <<>> THEN 0 ELSE Len(Head(groups)) + SumLen(Tail(groups))

\* the first pillar index >= i whose question group list is not empty
RECURSIVE FirstPillarFrom(_, _)
FirstPillarFrom(groups, i) ==
    IF i > Len(groups) THEN i
    ELSE IF Len(groups[i]) > 0 THEN i ELSE FirstPillarFrom(groups, i + 1)

CurrentQuestion(a) == a.pillarQuestionGroups[a.i][a.j]

\* analyzeQuestion's value for a question group (parseModelResponse maps the
\* verdicts to the group's ids by position)
AnalysisOf(question) ==
    [pillar |-> question.pillar, question |-> question.title,
     questionId |-> question.questionId, bestPracticeIds |-> question.bestPracticeIds]

AnalyzingError(a) ==
    [kind |-> "analyzing", pillar |-> CurrentQuestion(a).pillar,
     title |-> CurrentQuestion(a).title,
     processed |-> a.processedQuestions, total |-> a.totalQuestions]

\* mutant of ProgressEvent: the question at hand is counted as processed
ProgressEventCountsAhead(a, what) ==
    [processedQuestions |-> a.processedQuestions + 1, totalQuestions |-> a.totalQuestions,
     currentPillar |-> a.selectedPillars[a.i], currentQuestion |-> what]

\* lines 254-259, 307-312, 213-218: the payload of emitAnalysisProgress
ProgressEvent(a, what) ==
    [processedQuestions |-> a.processedQuestions, totalQuestions |-> a.totalQuestions,
     currentPillar |-> a.selectedPillars[a.i], currentQuestion |-> what]

Return(a, isCancelled, error) ==
    [a EXCEPT !.pc = "done", !.outcome = "returned",
              !.ret = [results |-> a.results, isCancelled |-> isCancelled, error |-> error]]

Throw(a, error) ==
    [a EXCEPT !.pc = "done", !.outcome = "thrown", !.error = error]

\* issue storeAnalysisResults(results) on behalf of a handler
IssueStore(a, handler, error) ==
    [a EXCEPT !.pc = "store", !.handler = handler, !.error = error,
              !.lastStoreArg = a.results, !.storeCalls = @ + 1]

\* lines 355-372: the catch of the whole function
OuterCatch(a, error) ==
    IF a.workItem # "undefined" /\ Len(a.results) > 0
    THEN IssueStore(a, "outer", error)
    ELSE Throw(a, error)

\* lines 313-336: the catch of one loop iteration
QuestionCatch(a, error) ==
    IF a.workItem # "undefined" /\ Len(a.results) > 0
    THEN IssueStore(a, "question", error)
    ELSE Return(a, FALSE, [kind |-> "processing"])

\* mutant of RetrievalCatch: the retrieval is tried a second time
RetrievalCatchRetries(a) ==
    IF Len(a.retrievals) <= Len(a.results) + 1
    THEN [a EXCEPT !.pc = "retrieve",
                   !.retrievals = Append(@, CurrentQuestion(a).title)]
    ELSE Return(a, FALSE, [kind |-> "retrieval"])

\* lines 228-251: retrieveFromKnowledgeBase rejected
RetrievalCatch(a) ==
    IF a.workItem # "undefined" /\ Len(a.results) > 0
    THEN IssueStore(a, "retrieval", [kind |-> "retrieval"])
    ELSE Return(a, FALSE, [kind |-> "retrieval"])

\* mutant of InferenceCatch: the error is returned without persisting
InferenceCatchNoStore(a) ==
    Return([a EXCEPT !.failedAt = a.processedQuestions + 1], FALSE, AnalyzingError(a))

\* lines 279-302: analyzeQuestion, or the progress update after it, rejected
InferenceCatch(a) ==
    LET b == [a EXCEPT !.failedAt = a.processedQuestions + 1]
    IN  IF a.workItem # "undefined" /\ Len(a.results) > 0
        THEN IssueStore(b, "inference", AnalyzingError(a))
        ELSE Return(b, FALSE, AnalyzingError(a))

\* mutant of CancelledBranch: the run returns without persisting
CancelledBranchNoPersist(a) ==
    Return([a EXCEPT !.cancelObserved = TRUE,
                     !.progressEvents = Append(@, ProgressEvent(a, <<"cancelled">>))],
           TRUE, NoError)

\* lines 195-220: the cancellation promise won the race
CancelledBranch(a) ==
    LET b == [a EXCEPT !.cancelObserved = TRUE]
    IN  IF a.workItem # "undefined" /\ Len(a.results) > 0
        THEN IssueStore(b, "cancel", [kind |-> "cancelled"])
        ELSE Return([b EXCEPT !.progressEvents =
                        Append(@, ProgressEvent(a, <<"cancelled">>))], TRUE, NoError)

\* mutant of Checkpoint: the race is left out
CheckpointNoRace(a) ==
    [a EXCEPT !.pc = "retrieve", !.inFlight = "retrieval",
              !.retrievals = Append(@, CurrentQuestion(a).title)]

\* lines 188-227: the checkpoint at the start of a question.  The race is
\* decided when it is called: the cancellation promise wins only if it is
\* already resolved.
Checkpoint(a) ==
    IF a.cancelPromise = "resolved"
    THEN CancelledBranch(a)
    ELSE [a EXCEPT !.pc = "retrieve", !.inFlight = "retrieval",
                   !.retrievals = Append(@, CurrentQuestion(a).title)]

\* mutant of AfterLoops: the cancellation promise is raced once more after
\* the last question
AfterLoopsChecksCancel(a) ==
    IF a.cancelPromise = "resolved"
    THEN CancelledBranch(a)
    ELSE IF a.workItem # "undefined"
         THEN IssueStore(a, "final", NoError)
         ELSE Throw(a, [kind |-> "TypeError"])

\* lines 340-354: after the loops
AfterLoops(a) ==
    IF a.workItem # "undefined"
    THEN IssueStore(a, "final", NoError)
    ELSE Throw(a, [kind |-> "TypeError"])

\* mutant of LoopHead: the pillar loop stops one pillar early
LoopHeadOffByOne(a) ==
    IF a.i >= Len(a.selectedPillars) THEN AfterLoops(a) ELSE Checkpoint(a)

\* lines 183-187: the loop heads, at position (i, j)
LoopHead(a) ==
    IF a.i > Len(a.selectedPillars) THEN AfterLoops(a) ELSE Checkpoint(a)

\* mutant of Advance: the rest of the pillar is left out
AdvanceToNextPillar(a) ==
    [a EXCEPT !.i = FirstPillarFrom(a.pillarQuestionGroups, a.i + 1), !.j = 1]

\* the next position of the two nested loops after question (i, j)
Advance(a) ==
    IF a.j < Len(a.pillarQuestionGroups[a.i])
    THEN [a EXCEPT !.j = a.j + 1]
    ELSE [a EXCEPT !.i = FirstPillarFrom(a.pillarQuestionGroups, a.i + 1), !.j = 1]

\* lines 304-312: the question is done
QuestionDone(a) ==
    LET b == [a EXCEPT !.processedQuestions = @ + 1]
        c == [b EXCEPT !.progressEvents =
                  Append(@, ProgressEvent(b, CurrentQuestion(b).title))]
    IN  LoopHead(Advance(c))

\* mutant of AfterLoad: the signal is a latch that no run resets; a request
\* made before the call resolves the promise at subscription
AfterLoadLatched(a, bps) ==
    LET groups == [p \in 1..Len(a.selectedPillars) |->
                      retrieveBestPractices(bps, a.selectedPillars[p])]
    IN  LoopHead([a EXCEPT !.pillarQuestionGroups = groups,
                           !.totalQuestions = SumLen(groups),
                           !.processedQuestions = 0,
                           !.cancelPromise = IF a.cancelledBefore THEN "resolved"
                                             ELSE "pending",
                           !.i = FirstPillarFrom(groups, 1), !.j = 1])

\* lines 161-187: with the taxonomy bps at hand, precompute the question
\* groups, subscribe to cancelAnalysis$ and enter the loops
AfterLoad(a, bps) ==
    LET groups == [p \in 1..Len(a.selectedPillars) |->
                      retrieveBestPractices(bps, a.selectedPillars[p])]
    IN  LoopHead([a EXCEPT !.pillarQuestionGroups = groups,
                           !.totalQuestions = SumLen(groups),
                           !.processedQuestions = 0,
                           !.cancelPromise = "pending",
                           !.i = FirstPillarFrom(groups, 1), !.j = 1])

\* the handler that catches a rejected storage call issued under `handler'
StorageCatch(a, error) ==
    LET b == [a EXCEPT !.storageFault = TRUE]
    IN  CASE a.handler \in {"cancel", "retrieval", "inference"} -> QuestionCatch(b, error)
          [] a.handler \in {"question", "final"} -> OuterCatch(b, error)
          [] OTHER -> Throw(b, error)

\* the fields written by the updateWorkItem call of each handler
HandlerUpdate(a, item) ==
    CASE a.handler = "final" ->
            [item EXCEPT !.analysisStatus = "COMPLETED", !.analysisProgress = 100]
      [] a.handler = "outer" ->
            [item EXCEPT !.analysisStatus = "PARTIAL", !.analysisError = a.error,
                         !.analysisPartialResults = TRUE]
      [] OTHER ->
            [item EXCEPT !.analysisStatus = "PARTIAL",
                         !.analysisProgress =
                             RoundPercent(a.processedQuestions, a.totalQuestions),
                         !.analysisError = a.error, !.analysisPartialResults = TRUE]

\* what follows the updateWorkItem call of each handler
HandlerExit(a) ==
    CASE a.handler = "cancel" ->
            Return([a EXCEPT !.progressEvents =
                       Append(@, ProgressEvent(a, <<"cancelled">>))], TRUE, NoError)
      [] a.handler = "retrieval" -> Return(a, FALSE, [kind |-> "retrieval"])
      [] a.handler = "inference" -> Return(a, FALSE, a.error)
      [] a.handler = "question" -> Return(a, FALSE, [kind |-> "processing"])
      [] a.handler = "final" -> Return(a, FALSE, NoError)
      [] OTHER -> Throw(a, a.error)

(***************************************************************************)
(* analyze(): the actions                                                  *)
(***************************************************************************)
SetAnalysis(r, a) == an' = [an EXCEPT ![r] = a]

\* lines 132-147: the call, up to the await of getFileContent
AnalyzeCall(r, userId, workloadId, selectedPillars) ==
    /\ an[r].pc = "idle"
    /\ LET a == [an[r] EXCEPT !.userId = userId, !.workloadId = workloadId,
                              !.selectedPillars = selectedPillars]
       IN  SetAnalysis(r, IF ~userId
                          THEN OuterCatch(a, [kind |-> "UserIdRequired"])
                          ELSE [a EXCEPT !.pc = "getFileContent"])
    /\ UNCHANGED <<cachedBestPractices, storageEnabled, details, pure, workItems,
                   analysisStore, iacStore, gen>>

\* lines 147-150 (getFileContent, lines 77-104)
GetFileContentSettles(r, ok) ==
    /\ an[r].pc = "getFileContent"
    /\ SetAnalysis(r, IF ok
                      THEN [an[r] EXCEPT !.pc = "getWorkItem"]
                      ELSE OuterCatch(an[r], [kind |-> "FetchFileContent"]))
    /\ UNCHANGED <<cachedBestPractices, storageEnabled, details, pure, workItems,
                   analysisStore, iacStore, gen>>

\* lines 150-156
GetWorkItemSettles(r, ok) ==
    /\ an[r].pc = "getWorkItem"
    /\ SetAnalysis(r, IF ok
                      THEN [an[r] EXCEPT !.pc = "markInProgress", !.workItem = r]
                      ELSE OuterCatch([an[r] EXCEPT !.storageFault = TRUE],
                                      [kind |-> "storage"]))
    /\ UNCHANGED <<cachedBestPractices, storageEnabled, details, pure, workItems,
                   analysisStore, iacStore, gen>>

\* lines 152-164 and 1425-1440: the IN_PROGRESS write settles; loadBestPractices
\* returns the cache when there is one and fetches the taxonomy otherwise
MarkInProgressSettles(r, ok) ==
    /\ an[r].pc = "markInProgress"
    /\ IF ok
       THEN /\ workItems' = [workItems EXCEPT ![r] =
                   [@ EXCEPT !.analysisStatus = "IN_PROGRESS", !.analysisProgress = 0]]
            /\ LET a == [an[r] EXCEPT !.statusWrites = Append(@, "IN_PROGRESS")]
               IN  IF cachedBestPractices.loaded
                   THEN SetAnalysis(r, AfterLoad(a, cachedBestPractices.bps))
                   ELSE SetAnalysis(r, [a EXCEPT !.pc = "loadS3", !.fetches = @ + 1])
       ELSE /\ SetAnalysis(r, OuterCatch([an[r] EXCEPT !.storageFault = TRUE],
                                         [kind |-> "storage"]))
            /\ UNCHANGED workItems
    /\ UNCHANGED <<cachedBestPractices, storageEnabled, details, pure, analysisStore, iacStore, gen>>

\* lines 1433-1450: the taxonomy object arrives (or not)
LoadS3Settles(r, ok) ==
    /\ an[r].pc = "loadS3"
    /\ SetAnalysis(r, IF ok
                      THEN [an[r] EXCEPT !.pc = "loadAnswers"]
                      ELSE OuterCatch(an[r], [kind |-> "LoadBestPractices"]))
    /\ UNCHANGED <<cachedBestPractices, storageEnabled, details, pure, workItems,
                   analysisStore, iacStore, gen>>

\* lines 1450-1489 and 161-227: the workload answers arrive; the cache is set
LoadAnswersSettles(r, ok) ==
    /\ an[r].pc = "loadAnswers"
    /\ IF ok
       THEN LET bps == EnrichedBestPractices(BaseBestPractices,
                                             AnswerSummaries(an[r].workloadId))
            IN  /\ cachedBestPractices' =
                       [loaded |-> TRUE, workload |-> an[r].workloadId, bps |-> bps]
                /\ SetAnalysis(r, AfterLoad(an[r], bps))
       ELSE /\ SetAnalysis(r, OuterCatch(an[r], [kind |-> "LoadBestPractices"]))
            /\ UNCHANGED cachedBestPractices
    /\ UNCHANGED <<storageEnabled, details, pure, workItems, analysisStore, iacStore, gen>>

\* lines 222-267: retrieveFromKnowledgeBase settles
RetrieveSettles(r, ok) ==
    /\ an[r].pc = "retrieve"
    /\ SetAnalysis(r, IF ok
                      THEN [an[r] EXCEPT
                               !.pc = "infer", !.inFlight = "inference",
                               !.progressEvents =
                                   Append(@, ProgressEvent(an[r], CurrentQuestion(an[r]).title)),
                               !.inferences = Append(@, CurrentQuestion(an[r]).title)]
                      ELSE RetrievalCatch([an[r] EXCEPT !.callFault = "retrieval",
                                                        !.inFlight = "none"]))
    /\ UNCHANGED <<cachedBestPractices, storageEnabled, details, pure, workItems,
                   analysisStore, iacStore, gen>>

\* lines 261-302: analyzeQuestion settles
InferSettles(r, ok) ==
    /\ an[r].pc = "infer"
    /\ SetAnalysis(r, IF ok
                      THEN LET a == [an[r] EXCEPT !.inFlight = "none", !.results =
                                        Append(@, AnalysisOf(CurrentQuestion(an[r])))]
                           IN  IF a.workItem # "undefined"
                               THEN [a EXCEPT !.pc = "updateProgress"]
                               ELSE QuestionDone(a)
                      ELSE InferenceCatch([an[r] EXCEPT !.callFault = "inference",
                                                        !.inFlight = "none"]))
    /\ UNCHANGED <<cachedBestPractices, storageEnabled, details, pure, workItems,
                   analysisStore, iacStore, gen>>

\* lines 270-312: the progress update after a question settles
UpdateProgressSettles(r, ok) ==
    /\ an[r].pc = "updateProgress"
    /\ IF ok
       THEN /\ workItems' = [workItems EXCEPT ![r].analysisProgress =
                   RoundPercent(an[r].processedQuestions, an[r].totalQuestions)]
            /\ SetAnalysis(r, QuestionDone(an[r]))
       ELSE /\ SetAnalysis(r, InferenceCatch([an[r] EXCEPT !.storageFault = TRUE]))
            /\ UNCHANGED workItems
    /\ UNCHANGED <<cachedBestPractices, storageEnabled, details, pure,
                   analysisStore, iacStore, gen>>

\* storeAnalysisResults of a handler settles; updateWorkItem is issued next
StoreSettles(r, ok) ==
    /\ an[r].pc = "store"
    /\ IF ok
       THEN /\ analysisStore' = [analysisStore EXCEPT ![r] = an[r].results]
            /\ SetAnalysis(r, [an[r] EXCEPT !.pc = "update"])
       ELSE /\ SetAnalysis(r, StorageCatch(an[r], [kind |-> "storage"]))
            /\ UNCHANGED analysisStore
    /\ UNCHANGED <<cachedBestPractices, storageEnabled, details, pure, workItems,
                   iacStore, gen>>

\* updateWorkItem of a handler settles; the handler returns or throws
UpdateSettles(r, ok) ==
    /\ an[r].pc = "update"
    /\ IF ok
       THEN LET item == HandlerUpdate(an[r], workItems[r])
            IN  /\ workItems' = [workItems EXCEPT ![r] = item]
                /\ SetAnalysis(r, HandlerExit([an[r] EXCEPT !.statusWrites =
                                                  Append(@, item.analysisStatus)]))
       ELSE /\ SetAnalysis(r, StorageCatch(an[r], [kind |-> "storage"]))
            /\ UNCHANGED workItems
    /\ UNCHANGED <<cachedBestPractices, storageEnabled, details, pure,
                   analysisStore, iacStore, gen>>

\* mutant of HearCancel: the request reaches the run of one workload only
HearCancelTargeted(a) ==
    IF a.outcome # "none" \/ a.pc = "idle" \/ a.workloadId # "w1" THEN a
    ELSE IF a.cancelPromise = "pending"
         THEN [a EXCEPT !.cancelPromise = "resolved", !.cancelHeardAt = a.pc,
                        !.cancelHeardQuestion =
                            IF a.pc \in {"retrieve", "infer", "updateProgress"}
                            THEN a.processedQuestions + 1 ELSE 0]
         ELSE IF a.cancelPromise = "none" THEN [a EXCEPT !.cancelUnheard = TRUE]
              ELSE a

\* lines 128-130 and 175-180: cancelAnalysis$.next() resolves the promise of
\* every subscribed run; a run that has not subscribed yet hears nothing
HearCancel(a) ==
    IF a.outcome # "none" \/ a.pc = "idle" THEN a
    ELSE IF a.cancelPromise = "pending"
         THEN [a EXCEPT !.cancelPromise = "resolved", !.cancelHeardAt = a.pc,
                        !.cancelHeardQuestion =
                            IF a.pc \in {"retrieve", "infer", "updateProgress"}
                            THEN a.processedQuestions + 1 ELSE 0]
         ELSE IF a.cancelPromise = "none" THEN [a EXCEPT !.cancelUnheard = TRUE]
              ELSE a

\* history: a request on the other signal arrives while the run listens to
\* its own
ForeignCancel(run, listening) ==
    IF listening /\ run.outcome = "none" THEN [run EXCEPT !.foreignCancel = TRUE] ELSE run

\* mutant of cancelAnalysis: one signal serves both operations
cancelBothSignals ==
    /\ an' = [r \in Runs |-> HearCancel(an[r])]
    /\ gen' = [r \in Runs |->
                 IF gen[r].pc = "invoke" /\ gen[r].outcome = "none"
                 THEN [gen[r] EXCEPT !.raceCancelled = TRUE, !.foreignCancel = TRUE]
                 ELSE gen[r]]
    /\ UNCHANGED <<cachedBestPractices, storageEnabled, details, pure, workItems,
                   analysisStore, iacStore>>

\* lines 128-130: cancelAnalysis$.next() reaches the subscriber of line 175;
\* cancelGeneration$ is another Subject (lines 64-65)
cancelAnalysis ==
    /\ an' = [r \in Runs |-> HearCancel(an[r])]
    /\ gen' = [r \in Runs |-> ForeignCancel(gen[r], gen[r].pc = "invoke")]
    /\ UNCHANGED <<cachedBestPractices, storageEnabled, details, pure, workItems,
                   analysisStore, iacStore>>

\* history: the request was made while the slot had no call
NoteCancelBefore(before, after) ==
    IF before.pc = "idle" THEN [after EXCEPT !.cancelledBefore = TRUE] ELSE after

\* cancelAnalysis, with the history of the requests made before a call
cancelAnalysisNoted ==
    /\ an' = [r \in Runs |-> NoteCancelBefore(an[r], HearCancel(an[r]))]
    /\ gen' = [r \in Runs |-> ForeignCancel(gen[r], gen[r].pc = "invoke")]
    /\ UNCHANGED <<cachedBestPractices, storageEnabled, details, pure, workItems,
                   analysisStore, iacStore>>

\* the caller has the outcome; the next call of this slot is for a new file
AnalyzeSettles(r) ==
    /\ an[r].pc = "done"
    /\ an' = [an EXCEPT ![r] = IdleAnalysis]
    /\ workItems' = [workItems EXCEPT ![r] = InitWorkItem]
    /\ analysisStore' = [analysisStore EXCEPT ![r] = <<>>]
    /\ UNCHANGED <<cachedBestPractices, storageEnabled, details, pure, iacStore, gen>>

\* the steps of an analyze() call with the given arguments, the external
\* calls settling with the given outcomes
AnalyzeRunWith(r, userIds, workloads, pillarLists, oks) ==
    \/ \E userId \in userIds, w \in workloads, ps \in pillarLists :
            AnalyzeCall(r, userId, w, ps)
    \/ \E ok \in oks : GetFileContentSettles(r, ok)
    \/ \E ok \in oks : GetWorkItemSettles(r, ok)
    \/ \E ok \in oks : MarkInProgressSettles(r, ok)
    \/ \E ok \in oks : LoadS3Settles(r, ok)
    \/ \E ok \in oks : LoadAnswersSettles(r, ok)
    \/ \E ok \in oks : RetrieveSettles(r, ok)
    \/ \E ok \in oks : InferSettles(r, ok)
    \/ \E ok \in oks : UpdateProgressSettles(r, ok)
    \/ \E ok \in oks : StoreSettles(r, ok)
    \/ \E ok \in oks : UpdateSettles(r, ok)

AnalyzeStepOn(r, pillarLists) ==
    \/ AnalyzeRunWith(r, BOOLEAN, Workloads, pillarLists, BOOLEAN)
    \/ AnalyzeSettles(r)

AnalyzeStep(r) == AnalyzeStepOn(r, PillarLists)

(***************************************************************************)
(* generateIacDocument(): pure helpers                                     *)
(***************************************************************************)
DefaultOrder == 999

\* mutant of SortedPosition: sections of equal order change places
SortedPositionTiesReversed(sections, i) ==
    1 + Cardinality({j \in 1..Len(sections) :
                        \/ sections[j].order < sections[i].order
                        \/ sections[j].order = sections[i].order /\ j > i})

\* Array.prototype.sort((a, b) => a.order - b.order), a stable sort: the
\* element at position i moves behind the elements of smaller order and the
\* elements of equal order that stood before it
SortedPosition(sections, i) ==
    1 + Cardinality({j \in 1..Len(sections) :
                        \/ sections[j].order < sections[i].order
                        \/ sections[j].order = sections[i].order /\ j < i})

SortByOrder(sections) ==
    [k \in 1..Len(sections) |->
        sections[CHOOSE i \in 1..Len(sections) : SortedPosition(sections, i) = k]]

\* Model output is a sequence of characters in which the word Section, the
\* two markers and the words of descriptions and content count as one
\* character each
Sentinel == "<end_of_iac_document_generation>"

Truncated == "<message_truncated>"

\* what \s matches and what trim() removes
SpaceChars == {" ", "\n", "\t"}

Digits == {"1", "2"}

Unnamed == <<"Unnamed Section">>

includes(str, ch) == \E i \in 1..Len(str) : str[i] = ch

\* String.prototype.replace(ch, ''): the first occurrence only
RemoveFirst(str, ch) ==
    IF includes(str, ch)
    THEN LET i == CHOOSE i \in 1..Len(str) :
                      str[i] = ch /\ \A j \in 1..(i - 1) : str[j] # ch
         IN  SubSeq(str, 1, i - 1) \o SubSeq(str, i + 1, Len(str))
    ELSE str

trim(str) ==
    LET solid == {i \in 1..Len(str) : str[i] \notin SpaceChars}
    IN  IF solid = {} THEN <<>>
        ELSE SubSeq(str, CHOOSE i \in solid : \A j \in solid : i <= j,
                         CHOOSE i \in solid : \A j \in solid : j <= i)

\* the position \s* reaches from position i
SkipSpace(str, i) ==
    CHOOSE j \in i..(Len(str) + 1) :
        /\ \A k \in i..(j - 1) : str[k] \in SpaceChars
        /\ j = Len(str) + 1 \/ str[j] \notin SpaceChars

\* /#\s*Section/ matches at position p
HeaderAt(str, p) ==
    /\ p <= Len(str)
    /\ str[p] = "#"
    /\ LET q == SkipSpace(str, p + 1)
       IN  q <= Len(str) /\ str[q] = "Section"

\* where /#\s*Section\s*/ matched at p ends
DigitsStart(str, p) == SkipSpace(str, SkipSpace(str, p + 1) + 1)

\* /#\s*Section\s*\d+/ matches at position p
NumberedHeaderAt(str, p) ==
    /\ HeaderAt(str, p)
    /\ LET d == DigitsStart(str, p)
       IN  d <= Len(str) /\ str[d] \in Digits

\* where /#\s*Section\s*\d+/ matched at p ends
DigitsEnd(str, p) ==
    LET d == DigitsStart(str, p)
    IN  CHOOSE e \in (d + 1)..(Len(str) + 1) :
            /\ \A k \in d..(e - 1) : str[k] \in Digits
            /\ e = Len(str) + 1 \/ str[e] \notin Digits

\* the lookahead (?=#\s*Section|\s*$) holds at position e
SectionStops(str, e) ==
    HeaderAt(str, e) \/ \A k \in e..Len(str) : str[k] \in SpaceChars

\* where the lazy .*? of line 599 stops for the match that starts at p
SectionEnd(str, p) ==
    CHOOSE e \in DigitsEnd(str, p)..(Len(str) + 1) :
        /\ SectionStops(str, e)
        /\ \A f \in DigitsEnd(str, p)..(e - 1) : ~SectionStops(str, f)

\* line 599: str.match(/#\s*Section\s*\d+.*?(?=#\s*Section|\s*$)/gs) || []
sectionMatches(str) ==
    LET starts == {p \in 1..Len(str) : NumberedHeaderAt(str, p)}
    IN  [k \in 1..Cardinality(starts) |->
            LET p == CHOOSE p \in starts : Cardinality({q \in starts : q < p}) = k - 1
            IN  SubSeq(str, p, SectionEnd(str, p) - 1)]

RECURSIVE parseInt(_)
parseInt(digits) ==
    IF digits = <<>> THEN 0
    ELSE 10 * parseInt(SubSeq(digits, 1, Len(digits) - 1))
             + (IF digits[Len(digits)] = "1" THEN 1 ELSE 2)

\* lines 602, 611: section.match(/^#\s*Section\s*(\d+)/)
orderOf(section) ==
    IF NumberedHeaderAt(section, 1)
    THEN parseInt(SubSeq(section, DigitsStart(section, 1), DigitsEnd(section, 1) - 1))
    ELSE DefaultOrder

\* mutant of descriptionOf: the description is not read from the header
descriptionOfUnnamed(section) == Unnamed

\* lines 603, 612: section.match(/^#\s*Section\s*\d+\s*-\s*(.+?)\n/), where
\* the dot matches no newline; the greedy \s* after the hyphen gives back
\* characters until a description of one character or more fits before a
\* newline
descriptionOf(section) ==
    IF ~NumberedHeaderAt(section, 1) THEN Unnamed
    ELSE LET h == SkipSpace(section, DigitsEnd(section, 1))
         IN  IF h > Len(section) \/ section[h] # "-" THEN Unnamed
             ELSE LET starts == {b \in (h + 1)..SkipSpace(section, h + 1) :
                                    /\ b <= Len(section)
                                    /\ section[b] # "\n"
                                    /\ \E nl \in (b + 1)..Len(section) :
                                           section[nl] = "\n"}
                  IN  IF starts = {} THEN Unnamed
                      ELSE LET b == CHOOSE b \in starts : \A c \in starts : c <= b
                               nl == CHOOSE nl \in (b + 1)..Len(section) :
                                         /\ section[nl] = "\n"
                                         /\ \A k \in (b + 1)..(nl - 1) :
                                                section[k] # "\n"
                           IN  trim(SubSeq(section, b, nl - 1))

\* lines 604-607: the header line and a trailing truncation flag are removed
contentOf(section) ==
    LET newlines == IF NumberedHeaderAt(section, 1)
                    THEN {nl \in DigitsEnd(section, 1)..Len(section) :
                             section[nl] = "\n"}
                    ELSE {}
        body == IF newlines = {} THEN section
                ELSE SubSeq(section,
                            (CHOOSE nl \in newlines : \A m \in newlines : nl <= m) + 1,
                            Len(section))
        flags == {t \in 1..Len(body) :
                     /\ body[t] = Truncated
                     /\ \A k \in (t + 1)..Len(body) : body[k] \in SpaceChars}
    IN  trim(IF flags = {} THEN body
             ELSE SubSeq(body, 1, (CHOOSE t \in flags : \A u \in flags : t <= u) - 1))

\* lines 594-620
parseImplementationModelResponse(content) ==
    LET cleanContent == trim(RemoveFirst(content, Sentinel))
        matches == sectionMatches(cleanContent)
    IN  [isComplete |-> includes(content, Sentinel),
         sections |-> [k \in 1..Len(matches) |->
                          [content |-> contentOf(matches[k]),
                           order |-> orderOf(matches[k]),
                           description |-> descriptionOf(matches[k])]]]

\* a header line "# Section n - d" and a line of content
Header(n, d) == <<"#", " ", "Section", " ", n, " ", "-", " ", d, "\n">>

Body(c) == <<c, "\n">>

\* a header line without number, and one without description
HeaderNoNumber == <<"#", " ", "Section", " ", "-", " ", "A", "\n">>

HeaderBare == <<"#", "Section", "1">>

\* The model responses of a generation run: no section, one section, another
\* section of the same number, two sections out of order; each with
\* and without the completion sentinel at its end
ResponseBodies ==
    {<<"x">>,
     Header("1", "A") \o Body("x"),
     Header("1", "B") \o Body("y"),
     Header("2", "B") \o Body("y"),
     Header("2", "B") \o Body("y") \o Header("1", "A") \o Body("x")}

Responses == ResponseBodies \cup {body \o <<Sentinel>> : body \in ResponseBodies}

\* a document: an optional leading note and the sections joined in order
Document(note, sections) == [note |-> note, sections |-> sections]

NoDocument == Document("absent", <<>>)

IdleGeneration ==
    [pc |-> "idle", handler |-> "none", userId |-> FALSE, fileType |-> "none",
     isComplete |-> FALSE, allSections |-> <<>>, iteration |-> 0, progress |-> 0,
     raceCancelled |-> FALSE, content |-> Document("none", <<>>), error |-> NoError,
     outcome |-> "none",
     ret |-> [content |-> Document("none", <<>>), isCancelled |-> FALSE, error |-> NoError],
     \* history of the run, read by the properties only
     invocations |-> 0, accepted |-> 0, statusWrites |-> <<>>, progressEvents |-> <<>>,
     storageFault |-> FALSE, cancelUnheard |-> FALSE, acceptedAfterCancel |-> FALSE,
     inferenceFault |-> FALSE, responses |-> <<>>,
     ownCancel |-> FALSE, foreignCancel |-> FALSE, inFlight |-> FALSE,
     cancelledBefore |-> FALSE]

GenReturn(g, content, isCancelled, error) ==
    [g EXCEPT !.pc = "done", !.outcome = "returned",
              !.ret = [content |-> content, isCancelled |-> isCancelled, error |-> error]]

GenThrow(g, error) == [g EXCEPT !.pc = "done", !.outcome = "thrown", !.error = error]

GenIssue(g, call, handler) == [g EXCEPT !.pc = call, !.handler = handler]

\* mutant of GenOuterCatch: FAILED is written without the userId guard
GenOuterCatchUnguarded(g, error) ==
    GenIssue([g EXCEPT !.error = error], "update", "failed")

\* lines 581-591: the catch of the whole function
GenOuterCatch(g, error) ==
    IF g.userId
    THEN GenIssue([g EXCEPT !.error = error], "update", "failed")
    ELSE GenThrow(g, [kind |-> "FailedToGenerate"])

\* mutant of GenLoopCatch: partial results are saved whatever storageEnabled says
GenLoopCatchUnguarded(g, error) ==
    IF g.userId /\ Len(g.allSections) > 0
    THEN LET sorted == SortByOrder(g.allSections)
         IN  GenIssue([g EXCEPT !.allSections = sorted, !.error = error,
                                !.content = Document("error", sorted)],
                      "store", "error")
    ELSE GenOuterCatch(g, error)

\* lines 506-542: the catch of one loop iteration
GenLoopCatch(g, error) ==
    IF storageEnabled /\ g.userId /\ Len(g.allSections) > 0
    THEN LET sorted == SortByOrder(g.allSections)
         IN  GenIssue([g EXCEPT !.allSections = sorted, !.error = error,
                                !.content = Document("error", sorted)],
                      "store", "error")
    ELSE GenOuterCatch(g, error)

\* mutant of InvokeModel: the call is issued and not awaited
InvokeModelNotAwaited(g) ==
    [g EXCEPT !.iteration = @ + 1, !.pc = "delay", !.raceCancelled = FALSE,
              !.invocations = @ + 1, !.inFlight = TRUE]

\* lines 432-441 and 1326-1347: the inference call is issued, racing a fresh
\* subscription to cancelGeneration$
InvokeModel(g) ==
    [g EXCEPT !.iteration = @ + 1, !.pc = "invoke", !.raceCancelled = FALSE,
              !.invocations = @ + 1, !.inFlight = TRUE]

\* lines 545-579: the loop is left
Finalize(g) ==
    LET sorted == SortByOrder(g.allSections)
        h == [g EXCEPT !.allSections = sorted, !.content = Document("none", sorted),
                       !.progressEvents = Append(@, 100)]
    IN  IF storageEnabled /\ h.userId
        THEN GenIssue(h, "store", "final")
        ELSE GenReturn(h, h.content, FALSE, NoError)

\* mutant of GenLoopHead: the loop is left after two iterations
GenLoopHeadCapped(g) ==
    LET progress == IF g.iteration * 10 < 90 THEN g.iteration * 10 ELSE 90
        h == [g EXCEPT !.progress = progress, !.progressEvents = Append(@, progress)]
    IN  IF g.iteration >= 2
        THEN Finalize(g)
        ELSE IF storageEnabled /\ h.userId
             THEN GenIssue(h, "update", "progress")
             ELSE InvokeModel(h)

\* mutant of GenLoopHead: the progress is not capped at 90
GenLoopHeadUncapped(g) ==
    LET progress == g.iteration * 10
        h == [g EXCEPT !.progress = progress, !.progressEvents = Append(@, progress)]
    IN  IF storageEnabled /\ h.userId
        THEN GenIssue(h, "update", "progress")
        ELSE InvokeModel(h)

\* lines 416-432: the head of a loop iteration
GenLoopHead(g) ==
    LET progress == IF g.iteration * 10 < 90 THEN g.iteration * 10 ELSE 90
        h == [g EXCEPT !.progress = progress, !.progressEvents = Append(@, progress)]
    IN  IF storageEnabled /\ h.userId
        THEN GenIssue(h, "update", "progress")
        ELSE InvokeModel(h)

\* lines 443-478: the race was won by the cancellation promise
GenCancelled(g) ==
    LET sorted == SortByOrder(g.allSections)
        h == [g EXCEPT !.allSections = sorted, !.content = Document("cancelled", sorted)]
    IN  IF storageEnabled /\ h.userId /\ Len(sorted) > 0
        THEN GenIssue(h, "store", "cancel")
        ELSE GenReturn(h, h.content, TRUE, NoError)

\* mutant of AcceptResponse: the sections of the response that carries the
\* sentinel are dropped
AcceptResponseDropLast(g, response) ==
    LET parsed == parseImplementationModelResponse(response)
        all == IF parsed.isComplete THEN g.allSections
               ELSE g.allSections \o parsed.sections
        h == [g EXCEPT !.isComplete = parsed.isComplete, !.accepted = @ + 1,
                       !.acceptedAfterCancel = @ \/ g.cancelUnheard,
                       !.responses = Append(@, response)]
    IN  IF ~parsed.isComplete /\ Len(all) > 0
        THEN LET sorted == SortByOrder(all)
                 k == [h EXCEPT !.allSections = sorted,
                                !.content = Document("none", sorted)]
             IN  IF storageEnabled /\ k.userId
                 THEN GenIssue(k, "store", "checkpoint")
                 ELSE [k EXCEPT !.pc = "delay"]
        ELSE [h EXCEPT !.allSections = all, !.pc = "delay"]

\* lines 480-505: a model response is accepted
AcceptResponse(g, response) ==
    LET parsed == parseImplementationModelResponse(response)
        all == g.allSections \o parsed.sections
        h == [g EXCEPT !.isComplete = parsed.isComplete, !.accepted = @ + 1,
                       !.acceptedAfterCancel = @ \/ g.cancelUnheard,
                       !.responses = Append(@, response)]
    IN  IF ~parsed.isComplete /\ Len(all) > 0
        THEN LET sorted == SortByOrder(all)
                 k == [h EXCEPT !.allSections = sorted,
                                !.content = Document("none", sorted)]
             IN  IF storageEnabled /\ k.userId
                 THEN GenIssue(k, "store", "checkpoint")
                 ELSE [k EXCEPT !.pc = "delay"]
        ELSE [h EXCEPT !.allSections = all, !.pc = "delay"]

\* the handler that catches a rejected storage call issued under `handler'
GenStorageCatch(g, error) ==
    LET h == [g EXCEPT !.storageFault = TRUE]
    IN  CASE g.handler \in {"progress", "cancel", "checkpoint"} -> GenLoopCatch(h, error)
          [] g.handler \in {"error", "final"} -> GenOuterCatch(h, error)
          [] OTHER -> GenThrow(h, error)

\* the fields written by the updateWorkItem call of each handler
GenHandlerUpdate(g, item) ==
    CASE g.handler = "progress" -> [item EXCEPT !.iacGenerationProgress = g.progress]
      [] g.handler = "final" ->
            [item EXCEPT !.iacGenerationStatus = "COMPLETED", !.iacGenerationProgress = 100]
      [] g.handler = "failed" ->
            [item EXCEPT !.iacGenerationStatus = "FAILED", !.iacGenerationError = g.error]
      [] OTHER ->
            [item EXCEPT !.iacGenerationStatus = "PARTIAL",
                         !.iacGenerationProgress = 10 * Len(g.allSections),
                         !.iacGenerationError =
                             IF g.handler = "cancel" THEN [kind |-> "cancelled"] ELSE g.error,
                         !.iacPartialResults = TRUE]

\* what follows the updateWorkItem call of each handler
GenHandlerExit(g) ==
    CASE g.handler = "progress" -> InvokeModel(g)
      [] g.handler = "cancel" -> GenReturn(g, g.content, TRUE, NoError)
      [] g.handler = "error" ->
            GenReturn(g, g.content, FALSE, [kind |-> "partial", cause |-> g.error])
      [] g.handler = "final" -> GenReturn(g, g.content, FALSE, NoError)
      [] OTHER -> GenThrow(g, [kind |-> "FailedToGenerate"])

(***************************************************************************)
(* generateIacDocument(): the actions                                      *)
(***************************************************************************)
SetGeneration(r, g) == gen' = [gen EXCEPT ![r] = g]

GenFrame == UNCHANGED <<cachedBestPractices, storageEnabled, details, pure, analysisStore, an>>

\* lines 379-392
GenerateCall(r, userId, fileType) ==
    /\ gen[r].pc = "idle"
    /\ LET g == [gen[r] EXCEPT !.userId = userId, !.fileType = fileType]
       IN  SetGeneration(r, IF ~userId
                            THEN GenOuterCatch(g, [kind |-> "UserIdRequired"])
                            ELSE [g EXCEPT !.pc = "getFileContent"])
    /\ GenFrame
    /\ UNCHANGED <<workItems, iacStore>>

\* lines 392-393 (getFileContent, lines 77-104)
GenGetFileContentSettles(r, ok) ==
    /\ gen[r].pc = "getFileContent"
    /\ SetGeneration(r, IF ok
                        THEN [gen[r] EXCEPT !.pc = "getWorkItem"]
                        ELSE GenOuterCatch(gen[r], [kind |-> "FetchFileContent"]))
    /\ GenFrame
    /\ UNCHANGED <<workItems, iacStore>>

\* lines 393-403
GenGetWorkItemSettles(r, ok) ==
    /\ gen[r].pc = "getWorkItem"
    /\ SetGeneration(r,
          IF ~ok
          THEN GenOuterCatch([gen[r] EXCEPT !.storageFault = TRUE], [kind |-> "storage"])
          ELSE IF gen[r].fileType # "image"
               THEN GenOuterCatch(gen[r], [kind |-> "OnlyDiagrams"])
               ELSE [gen[r] EXCEPT !.pc = "markInProgress"])
    /\ GenFrame
    /\ UNCHANGED <<workItems, iacStore>>

\* lines 399-432
GenMarkInProgressSettles(r, ok) ==
    /\ gen[r].pc = "markInProgress"
    /\ IF ok
       THEN /\ workItems' = [workItems EXCEPT ![r] =
                   [@ EXCEPT !.iacGenerationStatus = "IN_PROGRESS",
                             !.iacGenerationProgress = 0]]
            /\ SetGeneration(r, GenLoopHead([gen[r] EXCEPT !.statusWrites =
                                                Append(@, "IN_PROGRESS")]))
       ELSE /\ SetGeneration(r, GenOuterCatch([gen[r] EXCEPT !.storageFault = TRUE],
                                              [kind |-> "storage"]))
            /\ UNCHANGED workItems
    /\ GenFrame
    /\ UNCHANGED iacStore

\* lines 1342-1366 and 480-505: the model call settles first
GenInvokeSettles(r, ok, response) ==
    /\ gen[r].pc = "invoke"
    /\ ~gen[r].raceCancelled
    /\ SetGeneration(r, IF ok
                        THEN AcceptResponse([gen[r] EXCEPT !.inFlight = FALSE], response)
                        ELSE GenLoopCatch([gen[r] EXCEPT !.inferenceFault = TRUE,
                                                         !.inFlight = FALSE],
                                          [kind |-> "InvokeModel"]))
    /\ GenFrame
    /\ UNCHANGED <<workItems, iacStore>>

\* lines 1349-1355 and 443-478: the cancellation promise settled first
GenRaceCancelled(r) ==
    /\ gen[r].pc = "invoke"
    /\ gen[r].raceCancelled
    /\ SetGeneration(r, GenCancelled(gen[r]))
    /\ GenFrame
    /\ UNCHANGED <<workItems, iacStore>>

\* lines 1342-1346: the model call that lost the race settles; the race has
\* been decided and nobody reads the outcome
GenAbandonedSettles(r) ==
    /\ gen[r].inFlight
    /\ gen[r].pc \notin {"idle", "invoke"}
    /\ SetGeneration(r, [gen[r] EXCEPT !.inFlight = FALSE])
    /\ GenFrame
    /\ UNCHANGED <<workItems, iacStore>>

\* line 505 and 416: the pacing delay elapses; the loop `while (!isComplete)'
\* has no bound of its own, the model follows it for `limit' iterations
DelayElapsesWithin(r, limit) ==
    /\ gen[r].pc = "delay"
    /\ gen[r].isComplete \/ gen[r].iteration < limit
    /\ SetGeneration(r, IF gen[r].isComplete THEN Finalize(gen[r]) ELSE GenLoopHead(gen[r]))
    /\ GenFrame
    /\ UNCHANGED <<workItems, iacStore>>

DelayElapses(r) == DelayElapsesWithin(r, MaxIterations)

\* mutant of GenStoreSettles: the checkpoint also marks the work item PARTIAL
GenStoreSettlesMarksPartial(r, ok) ==
    /\ gen[r].pc = "store"
    /\ IF ok
       THEN /\ iacStore' = [iacStore EXCEPT ![r] = gen[r].content]
            /\ SetGeneration(r, IF gen[r].handler = "checkpoint"
                                THEN [gen[r] EXCEPT !.pc = "delay"]
                                ELSE [gen[r] EXCEPT !.pc = "update"])
            /\ workItems' = [workItems EXCEPT ![r] =
                   IF gen[r].handler = "checkpoint"
                   THEN [@ EXCEPT !.iacGenerationStatus = "PARTIAL",
                                  !.iacPartialResults = TRUE]
                   ELSE @]
       ELSE /\ SetGeneration(r, GenStorageCatch(gen[r], [kind |-> "storage"]))
            /\ UNCHANGED <<iacStore, workItems>>
    /\ GenFrame

\* storeIaCDocument of a handler settles
GenStoreSettles(r, ok) ==
    /\ gen[r].pc = "store"
    /\ IF ok
       THEN /\ iacStore' = [iacStore EXCEPT ![r] = gen[r].content]
            /\ SetGeneration(r, IF gen[r].handler = "checkpoint"
                                THEN [gen[r] EXCEPT !.pc = "delay"]
                                ELSE [gen[r] EXCEPT !.pc = "update"])
       ELSE /\ SetGeneration(r, GenStorageCatch(gen[r], [kind |-> "storage"]))
            /\ UNCHANGED iacStore
    /\ GenFrame
    /\ UNCHANGED workItems

\* updateWorkItem of a handler settles
GenUpdateSettles(r, ok) ==
    /\ gen[r].pc = "update"
    /\ IF ok
       THEN LET item == GenHandlerUpdate(gen[r], workItems[r])
            IN  /\ workItems' = [workItems EXCEPT ![r] = item]
                /\ SetGeneration(r, GenHandlerExit(
                       IF gen[r].handler = "progress" THEN gen[r]
                       ELSE [gen[r] EXCEPT !.statusWrites =
                                Append(@, item.iacGenerationStatus)]))
       ELSE /\ SetGeneration(r, GenStorageCatch(gen[r], [kind |-> "storage"]))
            /\ UNCHANGED workItems
    /\ GenFrame
    /\ UNCHANGED iacStore

\* lines 375-377 and 1327-1332: cancelGeneration$.next() resolves the promise
\* of every inference call in flight; no other subscription exists
GenHearCancel(g) ==
    IF g.outcome # "none" \/ g.pc = "idle" THEN g
    ELSE IF g.pc = "invoke"
         THEN [g EXCEPT !.raceCancelled = TRUE, !.ownCancel = TRUE]
         ELSE [g EXCEPT !.cancelUnheard = TRUE]

cancelIaCGeneration ==
    /\ gen' = [r \in Runs |-> GenHearCancel(gen[r])]
    /\ an' = [r \in Runs |-> ForeignCancel(an[r], an[r].cancelPromise = "pending")]
    /\ UNCHANGED <<cachedBestPractices, storageEnabled, details, pure, workItems,
                   analysisStore, iacStore>>

\* cancelIaCGeneration, with the history of the requests made before a call
cancelIaCGenerationNoted ==
    /\ gen' = [r \in Runs |-> NoteCancelBefore(gen[r], GenHearCancel(gen[r]))]
    /\ an' = [r \in Runs |-> ForeignCancel(an[r], an[r].cancelPromise = "pending")]
    /\ UNCHANGED <<cachedBestPractices, storageEnabled, details, pure, workItems,
                   analysisStore, iacStore>>

\* the steps of a generateIacDocument() call with the given arguments, the
\* external calls settling with the given outcomes and the model answering
\* with the given responses
GenerateStepWith(r, userIds, fileTypes, oks, responses) ==
    \/ \E userId \in userIds, fileType \in fileTypes :
            GenerateCall(r, userId, fileType)
    \/ \E ok \in oks : GenGetFileContentSettles(r, ok)
    \/ \E ok \in oks : GenGetWorkItemSettles(r, ok)
    \/ \E ok \in oks : GenMarkInProgressSettles(r, ok)
    \/ \E ok \in oks, response \in responses : GenInvokeSettles(r, ok, response)
    \/ GenRaceCancelled(r)
    \/ GenAbandonedSettles(r)
    \/ DelayElapses(r)
    \/ \E ok \in oks : GenStoreSettles(r, ok)
    \/ \E ok \in oks : GenUpdateSettles(r, ok)

GenerateStep(r) ==
    GenerateStepWith(r, BOOLEAN, {"image", "text"}, BOOLEAN, Responses)

(***************************************************************************)
(* getMoreDetails()                                                        *)
(***************************************************************************)
\* the selected items: whether the item is already applied; an item is named
\* by its position in the selection
Items == [applied : BOOLEAN]

\* line 662: the items not applied, in selection order
RECURSIVE FilterNotApplied(_, _)
FilterNotApplied(selectedItems, k) ==
    IF k > Len(selectedItems) THEN <<>>
    ELSE (IF selectedItems[k].applied THEN <<>> ELSE <<k>>)
             \o FilterNotApplied(selectedItems, k + 1)

\* a reply of the model: whether it carries <end_of_details_generation> and
\* whether any text is left after the cleanup of lines 860-871
DetailsResponses == [complete : BOOLEAN, empty : BOOLEAN]

\* lines 857-878: the text kept from the reply received at the given turn
parseDetailsModelResponse(response, turn) ==
    [content |-> IF response.empty THEN <<>> ELSE <<turn>>,
     isComplete |-> response.complete]

\* allDetails: for each item appended, its text followed by '\n\n---\n\n';
\* trimmed: whether trim() has removed the whitespace that ends the last
\* separator
Combined(allDetails, trimmed) == [items |-> allDetails, trimmed |-> trimmed]

IdleDetails ==
    [pc |-> "idle", filteredItems |-> <<>>, totalItems |-> 0, isImage |-> FALSE,
     i |-> 0, itemDetails |-> <<>>, isComplete |-> FALSE, turns |-> 0,
     allDetails |-> <<>>, hasError |-> FALSE,
     outcome |-> "none", error |-> NoError,
     ret |-> [content |-> Combined(<<>>, FALSE), error |-> NoError],
     \* history of the call, read by the properties only
     failed |-> {}, discarded |-> {}, progressEvents |-> <<>>, cancelRequests |-> 0]

DetReturn(d, content, error) ==
    [d EXCEPT !.pc = "done", !.outcome = "returned",
              !.ret = [content |-> content, error |-> error]]

\* lines 769-775: the catch of the whole function rethrows
DetThrow(d, error) == [d EXCEPT !.pc = "done", !.outcome = "thrown", !.error = error]

\* lines 750-768: after the loop over the items
DetFinish(d) ==
    LET h == [d EXCEPT !.progressEvents = Append(@, 100)]
    IN  IF h.allDetails # <<>> /\ h.hasError
        THEN DetReturn(h, Combined(h.allDetails, FALSE), [kind |-> "SomeItemsFailed"])
        ELSE IF h.allDetails = <<>>
             THEN DetThrow(h, [kind |-> "NoDetails"])
             ELSE DetReturn(h, Combined(h.allDetails, TRUE), NoError)

\* lines 706-724: the loop goes to item i (0-based in the source, 1-based here)
DetItemHead(d, i) ==
    IF i > d.totalItems
    THEN DetFinish([d EXCEPT !.i = i])
    ELSE [d EXCEPT !.i = i, !.itemDetails = <<>>, !.isComplete = FALSE,
                   !.turns = 1, !.pc = "invoke"]

\* mutant of DetItemCatch: a failed item ends the loop
DetItemCatchStops(d) ==
    DetFinish([d EXCEPT !.hasError = TRUE,
                        !.failed = @ \cup {d.filteredItems[d.i]},
                        !.discarded = IF d.itemDetails # <<>>
                                      THEN @ \cup {d.filteredItems[d.i]} ELSE @])

\* mutant of DetItemCatch: the text received before the failure is kept
DetItemCatchKeepsText(d) ==
    DetItemHead([d EXCEPT !.hasError = TRUE,
                          !.failed = @ \cup {d.filteredItems[d.i]},
                          !.discarded = IF d.itemDetails # <<>>
                                        THEN @ \cup {d.filteredItems[d.i]} ELSE @,
                          !.allDetails = IF d.itemDetails # <<>>
                                         THEN Append(@, [item |-> d.filteredItems[d.i],
                                                         text |-> d.itemDetails])
                                         ELSE @],
                d.i + 1)

\* lines 742-747: the catch of one item
DetItemCatch(d) ==
    DetItemHead([d EXCEPT !.hasError = TRUE,
                          !.failed = @ \cup {d.filteredItems[d.i]},
                          !.discarded = IF d.itemDetails # <<>>
                                        THEN @ \cup {d.filteredItems[d.i]} ELSE @],
                d.i + 1)

\* lines 735-741: the item is complete
DetItemDone(d) ==
    LET percent == (200 * d.i + d.totalItems) \div (2 * d.totalItems)
    IN  DetItemHead([d EXCEPT !.progressEvents = Append(@, percent),
                              !.allDetails = Append(@, [item |-> d.filteredItems[d.i],
                                                        text |-> d.itemDetails])],
                    d.i + 1)

DetFrame == UNCHANGED <<cachedBestPractices, storageEnabled, workItems,
                        analysisStore, iacStore, an, gen, pure>>

\* lines 656-673: the call, up to the await of getWorkItem; selectedItems is
\* null when isNull
getMoreDetails(selectedItems, isNull, userId, fileId) ==
    /\ details.pc = "idle"
    /\ details' =
          IF isNull
          THEN DetThrow(details, [kind |-> "TypeError"])
          ELSE LET filtered == FilterNotApplied(selectedItems, 1)
                   d == [details EXCEPT !.filteredItems = filtered,
                                        !.totalItems = Len(filtered)]
               IN  IF Len(selectedItems) = 0
                   THEN DetThrow(d, [kind |-> "NoItemsSelected"])
                   ELSE IF ~fileId \/ ~userId
                        THEN DetThrow(d, [kind |-> "IdsRequired"])
                        ELSE [d EXCEPT !.pc = "getWorkItem"]
    /\ DetFrame

\* lines 673-685
DetGetWorkItemSettles(ok, fileType) ==
    /\ details.pc = "getWorkItem"
    /\ details' =
          IF ~ok THEN DetThrow(details, [kind |-> "storage"])
          ELSE IF fileType = "none"
               THEN DetThrow(details, [kind |-> "NoFileType"])
               ELSE [details EXCEPT !.pc = "getOriginalContent",
                                    !.isImage = (fileType = "image")]
    /\ DetFrame

\* lines 681-724
DetGetOriginalContentSettles(ok) ==
    /\ details.pc = "getOriginalContent"
    /\ details' =
          IF ~ok THEN DetThrow(details, [kind |-> "storage"])
          ELSE IF details.totalItems = 0
               THEN DetThrow(details, [kind |-> "TypeError"])
               ELSE DetItemHead([details EXCEPT !.progressEvents = Append(@, 0)], 1)
    /\ DetFrame

\* lines 714-732 and 742-747: the inference call of a turn settles
DetInvokeSettles(ok, response) ==
    /\ details.pc = "invoke"
    /\ details' =
          IF ~ok
          THEN DetItemCatch(details)
          ELSE LET parsed == parseDetailsModelResponse(response, details.turns)
               IN  [details EXCEPT !.itemDetails = @ \o parsed.content,
                                   !.isComplete = parsed.isComplete,
                                   !.pc = "delay"]
    /\ DetFrame

\* lines 732, 713 and 735-741: the pacing delay of a turn elapses
DetDelayElapses ==
    /\ details.pc = "delay"
    /\ details.isComplete \/ details.turns < MaxTurns
    /\ details' = IF details.isComplete
                  THEN DetItemDone(details)
                  ELSE [details EXCEPT !.turns = @ + 1, !.pc = "invoke"]
    /\ DetFrame

\* lines 128-130 and 375-377: getMoreDetails() subscribes to neither signal
DetCancelRequested ==
    /\ details.pc \notin {"idle", "done"}
    /\ details.cancelRequests < 1
    /\ details' = [details EXCEPT !.cancelRequests = @ + 1]
    /\ DetFrame

DetailsStep ==
    \/ \E selectedItems \in SeqsUpTo(Items, MaxItems),
          isNull \in BOOLEAN, userId \in BOOLEAN, fileId \in BOOLEAN :
            getMoreDetails(selectedItems, isNull, userId, fileId)
    \/ \E ok \in BOOLEAN, fileType \in {"image", "text", "none"} :
            DetGetWorkItemSettles(ok, fileType)
    \/ \E ok \in BOOLEAN : DetGetOriginalContentSettles(ok)
    \/ \E ok \in BOOLEAN, response \in DetailsResponses : DetInvokeSettles(ok, response)
    \/ DetDelayElapses
    \/ DetCancelRequested

(***************************************************************************)
(* Calls of the pure helpers                                               *)
(***************************************************************************)
\* no helper call
NoCall == [fn |-> "none", input |-> <<>>, calls |-> 0, output |-> <<>>, again |-> <<>>]

\* a helper is about to be called on the given input
CallOf(fn, input) == [NoCall EXCEPT !.fn = fn, !.input = input]

PureFrame == UNCHANGED <<cachedBestPractices, storageEnabled, workItems,
                         analysisStore, iacStore, an, gen, details>>

\* taxonomy entries as loadBestPractices returns them: two spellings of one
\* pillar, another pillar, two questions, two practices
TaxonomyEntries ==
    {EnrichBestPractice([Pillar |-> pl, Question |-> q, BestPractice |-> bp],
                        AnswerSummaries("w1")) :
        pl \in {PillarAB, <<"a", "\t", " ", "b">>, PillarC}, q \in {Q1, Q2},
        bp \in {BPx, BPy}}

\* lines 1491-1527 on the taxonomy loadBestPractices has returned
CallRetrieveBestPractices ==
    /\ pure.fn = "retrieveBestPractices"
    /\ pure.calls = 0
    /\ pure' = [pure EXCEPT !.calls = 1,
                            !.output = retrieveBestPractices(pure.input.all,
                                                             pure.input.pillarId)]
    /\ PureFrame

(***************************************************************************)
(* cleanJsonString: a text is a sequence of characters; the words True,     *)
(* False, true and false stand for their letters                           *)
(***************************************************************************)
\* the characters \s matches
JsonWhitespace == {" ", "\n", "\t"}

\* the texts handed to cleanJsonString are made of these
JsonTokens == {"{", "}", "\"", ":", ",", " ", "\n", "True", "x"}

\* and some longer texts: {"x": True}, {"x" : True}, {"x":True}, and texts
\* with the other literal
LongerTexts ==
    {<<"{", "\"", "x", "\"", ":", " ", "True", "}">>,
     <<"{", "\"", "x", "\"", " ", ":", " ", "True", "}">>,
     <<"{", "\"", "x", "\"", ":", "True", "}">>,
     <<"\"", ":", " ", "False">>, <<"x", ":", " ", "False">>,
     <<"{", "\"", ":", " ", "False", "}">>, <<"False">>}

\* indexOf and lastIndexOf, counting from 1; 0 when absent
indexOf(str, ch) ==
    IF \E i \in 1..Len(str) : str[i] = ch
    THEN CHOOSE i \in 1..Len(str) : str[i] = ch /\ \A j \in 1..(i - 1) : str[j] # ch
    ELSE 0

lastIndexOf(str, ch) ==
    IF \E i \in 1..Len(str) : str[i] = ch
    THEN CHOOSE i \in 1..Len(str) : str[i] = ch /\ \A j \in (i + 1)..Len(str) : str[j] # ch
    ELSE 0

\* String.prototype.substring(start, end), both counted from 0: the two
\* arguments are swapped when start > end
substring(str, start, end) ==
    LET lo == IF start <= end THEN start ELSE end
        hi == IF start <= end THEN end ELSE start
    IN  SubSeq(str, lo + 1, hi)

\* the text without the characters at the given positions
Without(str, dropped) ==
    LET kept == (1..Len(str)) \ dropped
    IN  [k \in 1..Cardinality(kept) |->
            str[CHOOSE i \in kept : Cardinality({j \in kept : j < i}) = k - 1]]

\* the first and the last position of the whitespace run around position i
RunStart(str, i) ==
    CHOOSE j \in 1..i : /\ \A k \in j..i : str[k] \in JsonWhitespace
                        /\ (j = 1 \/ str[j - 1] \notin JsonWhitespace)

RunEnd(str, i) ==
    CHOOSE j \in i..Len(str) : /\ \A k \in i..j : str[k] \in JsonWhitespace
                               /\ (j = Len(str) \/ str[j + 1] \notin JsonWhitespace)

\* str.replace(/ch\s+/g, ch), or with the lookbehind (?<!") before ch
RemoveSpaceAfter(str, ch, notAfterQuote) ==
    Without(str, {i \in 1..Len(str) :
                    /\ str[i] \in JsonWhitespace
                    /\ LET p == RunStart(str, i) - 1
                       IN  /\ p >= 1
                           /\ str[p] = ch
                           /\ notAfterQuote => (p = 1 \/ str[p - 1] # "\"")})

\* str.replace(/\s+ch/g, ch)
RemoveSpaceBefore(str, ch) ==
    Without(str, {i \in 1..Len(str) :
                    /\ str[i] \in JsonWhitespace
                    /\ LET n == RunEnd(str, i) + 1
                       IN  n <= Len(str) /\ str[n] = ch})

\* line 955: str.replace(/(?<!"):\s+/g, ":")
RemoveSpaceAfterColon(str) == RemoveSpaceAfter(str, ":", TRUE)

\* lines 973-974: str.replace(/: True/g, ": true").replace(/: False/g, ": false")
LowerCaseBooleans(str) ==
    [i \in 1..Len(str) |->
        IF i >= 3 /\ str[i - 1] = " " /\ str[i - 2] = ":"
        THEN CASE str[i] = "True" -> "true"
               [] str[i] = "False" -> "false"
               [] OTHER -> str[i]
        ELSE str[i]]

\* lines 942-977
cleanJsonString(jsonString) ==
    LET firstCurlyBrace == indexOf(jsonString, "{") - 1
        lastCurlyBrace == lastIndexOf(jsonString, "}") - 1
        s1 == IF firstCurlyBrace # -1 /\ lastCurlyBrace # -1
              THEN substring(jsonString, firstCurlyBrace, lastCurlyBrace + 1)
              ELSE jsonString
        s2 == ReplaceRuns(s1, JsonWhitespace, " ")
        s3 == RemoveSpaceAfterColon(s2)
        s4 == RemoveSpaceBefore(s3, ":")
        s5 == RemoveSpaceAfter(s4, ",", TRUE)
        s6 == RemoveSpaceBefore(s5, ",")
        s7 == RemoveSpaceAfter(s6, "{", FALSE)
        s8 == RemoveSpaceBefore(s7, "}")
        s9 == RemoveSpaceAfter(s8, "[", FALSE)
        s10 == RemoveSpaceBefore(s9, "]")
    IN  LowerCaseBooleans(s10)

\* lines 942-977
CallCleanJsonString ==
    /\ pure.fn = "cleanJsonString"
    /\ pure.calls = 0
    /\ pure' = [pure EXCEPT !.calls = 1, !.output = cleanJsonString(pure.input)]
    /\ PureFrame

\* lines 942-977, on the text the first call returned
CallCleanJsonStringAgain ==
    /\ pure.fn = "cleanJsonString"
    /\ pure.calls = 1
    /\ pure' = [pure EXCEPT !.calls = 2, !.again = cleanJsonString(pure.output)]
    /\ PureFrame

\* the names handed to generateFallbackBestPracticeId
\* the choices of a workload answer: a practice title with a choice id, or
\* with none
AnswerChoices ==
    {[Title |-> BPx, ChoiceId |-> <<"c", "a">>], [Title |-> BPx, ChoiceId |-> <<"c", "b">>],
     [Title |-> BPy, ChoiceId |-> <<"c", "a">>], [Title |-> BPy, ChoiceId |-> <<"c", "b">>],
     [Title |-> BPx, ChoiceId |-> <<>>]}

\* ListAnswers results: no answer, one answer, or two answers, for the two
\* questions that share a practice title or twice for the same question
AnswerLists ==
    LET answers == {[QuestionTitle |-> q, QuestionId |-> toLowerCase(q), Choices |-> cs] :
                       q \in {Q1, Q2}, cs \in SeqsUpTo(AnswerChoices, MaxChoices)}
    IN  {<<>>} \cup {<<a>> : a \in answers} \cup {<<a, b>> : a \in answers, b \in answers}

\* lines 1452-1482 on the base taxonomy and the given answers
CallEnrich ==
    /\ pure.fn = "loadBestPractices"
    /\ pure.calls = 0
    /\ pure' = [pure EXCEPT !.calls = 1,
                            !.output = EnrichedBestPractices(BaseBestPractices, pure.input)]
    /\ PureFrame

\* the lines and markers model output is made of: numbered headers with a
\* description, a header without number, a header without description,
\* content, an empty line, the two markers
Pieces ==
    {Header("1", "A"), Header("2", "B"), HeaderNoNumber, HeaderBare,
     <<"x">>, <<"\n">>, <<Sentinel>>, <<Truncated>>}

\* a header with a number of two digits
TwoDigitTexts ==
    {<<"#", "Section", "1", "2", "\n", "x">>,
     <<"#", " ", "Section", " ", "2", "1", " ", "-", " ", "A", "\n", "x">>}

RECURSIVE TextsUpTo(_)
TextsUpTo(n) ==
    IF n = 0 THEN {<<>>}
    ELSE LET shorter == TextsUpTo(n - 1)
         IN  shorter \cup {t \o piece : t \in shorter, piece \in Pieces}

\* the headers "# Section n - d" of a response made of such headers
HeaderSeqs ==
    LET hs == {[n |-> "1", d |-> "A"], [n |-> "2", d |-> "B"], [n |-> "2", d |-> "A"]}
    IN  {<<h>> : h \in hs} \cup {<<h, g>> : h \in hs, g \in hs}

\* the response made of these headers, each followed by content, with the
\* completion sentinel after the section of the given number (0: nowhere)
RECURSIVE WellFormed(_, _)
WellFormed(hs, sentinelAfter) ==
    IF hs = <<>> THEN <<>>
    ELSE WellFormed(SubSeq(hs, 1, Len(hs) - 1), sentinelAfter)
             \o Header(hs[Len(hs)].n, hs[Len(hs)].d) \o Body("x")
             \o (IF sentinelAfter = Len(hs) THEN <<Sentinel>> ELSE <<>>)

WellFormedTexts ==
    {WellFormed(hs, at) : hs \in HeaderSeqs, at \in 0..2}

\* lines 594-620
CallParseImplementationModelResponse ==
    /\ pure.fn = "parseImplementationModelResponse"
    /\ pure.calls = 0
    /\ pure' = [pure EXCEPT !.calls = 1,
                            !.output = parseImplementationModelResponse(pure.input)]
    /\ PureFrame

\* lines 484-486 on the sections of one response
CallSortSections ==
    /\ pure.fn = "parseImplementationModelResponse"
    /\ pure.calls = 1
    /\ pure' = [pure EXCEPT !.calls = 2,
                            !.again = SortByOrder(pure.output.sections)]
    /\ PureFrame

NameChars == {"A", "b", "1", " ", "!", "-"}

\* the name "Foo Bar!"
FooBar == <<"F", "o", "o", " ", "B", "a", "r", "!">>

\* lines 1529-1534
CallFallbackId ==
    /\ pure.fn = "generateFallbackBestPracticeId"
    /\ pure.calls = 0
    /\ pure' = [pure EXCEPT !.calls = 1,
                            !.output = generateFallbackBestPracticeId(pure.input)]
    /\ PureFrame

\* lines 1529-1534, on the id the first call returned
CallFallbackIdAgain ==
    /\ pure.fn = "generateFallbackBestPracticeId"
    /\ pure.calls = 1
    /\ pure' = [pure EXCEPT !.calls = 2,
                            !.again = generateFallbackBestPracticeId(pure.output)]
    /\ PureFrame


\* the service after construction, no call made
InitService ==
    /\ cachedBestPractices = NullCache
    /\ storageEnabled \in BOOLEAN
    /\ workItems = [r \in Runs |-> InitWorkItem]
    /\ analysisStore = [r \in Runs |-> <<>>]
    /\ iacStore = [r \in Runs |-> NoDocument]
    /\ an = [r \in Runs |-> IdleAnalysis]
    /\ gen = [r \in Runs |-> IdleGeneration]
    /\ details = IdleDetails

Init == InitService /\ pure = NoCall

\* analyze() never reads storageEnabled
InitAnalyze == Init /\ storageEnabled

\* analyze() calls, one at a time, and cancellation requests at any time
NextAnalyze == AnalyzeStep("r1") \/ cancelAnalysis

SpecAnalyze == InitAnalyze /\ [][NextAnalyze]_vars

\* two analyze() calls at a time, for two workloads, on the pillar with two
\* questions; the external calls succeed
NextTwoAnalyses ==
    \/ AnalyzeRunWith("r1", {TRUE}, {"w1"}, {<<PillarSlug(PillarAB)>>}, {TRUE})
    \/ AnalyzeSettles("r1")
    \/ AnalyzeRunWith("r2", {TRUE}, {"w2"}, {<<PillarSlug(PillarAB)>>}, {TRUE})
    \/ AnalyzeSettles("r2")

SpecTwoAnalyses == InitAnalyze /\ [][NextTwoAnalyses]_vars

\* one generateIacDocument() call and cancellation requests at any time
NextGenerate == GenerateStep("r1") \/ cancelIaCGeneration

SpecGenerate == Init /\ [][NextGenerate]_vars

\* every external call of the run eventually settles and the pacing timer
\* eventually fires
SpecGenerateFair == SpecGenerate /\ WF_vars(GenerateStep("r1"))

\* one call at a time, of either kind, on at most one pillar
NextOneCall ==
    \/ gen["r1"].pc = "idle" /\ AnalyzeStepOn("r1", SeqsUpTo(PillarIds, 1))
    \/ cancelAnalysis
    \/ an["r1"].pc = "idle" /\ GenerateStep("r1")
    \/ cancelIaCGeneration

SpecOneCall == Init /\ [][NextOneCall]_vars

\* one long generateIacDocument() call of up to MaxLongRun iterations, the
\* model answering one section per response, with storage faults and
\* cancellation requests at any time
LongRunResponses ==
    {Header("1", "A") \o Body("x"), Header("1", "A") \o Body("x") \o <<Sentinel>>}

NextLongRun ==
    \/ GenerateStepWith("r1", {TRUE}, {"image"}, BOOLEAN, LongRunResponses)
    \/ DelayElapsesWithin("r1", MaxLongRun)
    \/ cancelIaCGeneration

SpecLongRun == Init /\ [][NextLongRun]_vars

\* an analyze() call and a generateIacDocument() call, one at a time, each
\* possibly preceded by cancellation requests made while no call of its kind
\* is active; the external calls succeed
NextCancelFirst ==
    \/ /\ gen["r2"].pc \in {"idle", "done"}
       /\ AnalyzeRunWith("r1", {TRUE}, {"w1"}, {<<PillarSlug(PillarAB)>>}, {TRUE})
    \/ cancelAnalysisNoted
    \/ /\ an["r1"].pc \in {"idle", "done"}
       /\ GenerateStepWith("r2", {TRUE}, {"image"}, {TRUE}, LongRunResponses)
    \/ cancelIaCGenerationNoted

SpecCancelFirst == Init /\ [][NextCancelFirst]_vars

\* two analyze() calls at a time, or two generateIacDocument() calls at a
\* time, with cancellation requests of their kind at any time; the external
\* calls succeed
BroadcastResponses ==
    {Header("1", "A") \o Body("x"), Header("1", "A") \o Body("x") \o <<Sentinel>>}

NextBroadcast ==
    \/ /\ \A r \in Runs : gen[r].pc = "idle"
       /\ \/ AnalyzeRunWith("r1", {TRUE}, {"w1"}, {<<PillarSlug(PillarAB)>>}, {TRUE})
          \/ AnalyzeRunWith("r2", {TRUE}, {"w2"}, {<<PillarSlug(PillarAB)>>}, {TRUE})
          \/ cancelAnalysis
    \/ /\ \A r \in Runs : an[r].pc = "idle"
       /\ \/ GenerateStepWith("r1", {TRUE}, {"image"}, {TRUE}, BroadcastResponses)
          \/ GenerateStepWith("r2", {TRUE}, {"image"}, {TRUE}, BroadcastResponses)
          \/ cancelIaCGeneration

SpecBroadcast == Init /\ [][NextBroadcast]_vars

\* an analyze() call and a generateIacDocument() call at the same time, on
\* two files, with cancellation requests of both kinds at any time; the
\* external calls succeed
NextBoth ==
    \/ AnalyzeRunWith("r1", {TRUE}, {"w1"}, {<<PillarSlug(PillarAB)>>}, {TRUE})
    \/ cancelAnalysis
    \/ GenerateStepWith("r2", {TRUE}, {"image"}, {TRUE},
                        {Header("1", "A") \o Body("x"),
                         Header("1", "A") \o Body("x") \o <<Sentinel>>})
    \/ cancelIaCGeneration

SpecBoth == Init /\ [][NextBoth]_vars

\* retrieveBestPractices on every taxonomy of up to MaxEntries entries and
\* every pillar slug
InitRetrieve ==
    /\ InitService
    /\ storageEnabled
    /\ pure \in {CallOf("retrieveBestPractices", [all |-> all, pillarId |-> pillarId]) :
                    all \in SeqsUpTo(TaxonomyEntries, MaxEntries),
                    pillarId \in {PillarSlug(PillarAB), PillarSlug(PillarC)}}

SpecRetrieve == InitRetrieve /\ [][CallRetrieveBestPractices]_vars

\* generateFallbackBestPracticeId on every name of up to MaxNameLen characters
\* and on "Foo Bar!"
InitFallbackId ==
    /\ InitService
    /\ storageEnabled
    /\ pure \in {CallOf("generateFallbackBestPracticeId", name) :
                    name \in SeqsUpTo(NameChars, MaxNameLen) \cup {FooBar}}

NextFallbackId == CallFallbackId \/ CallFallbackIdAgain

SpecFallbackId == InitFallbackId /\ [][NextFallbackId]_vars

\* cleanJsonString on every text of up to MaxJsonLen tokens and on some
\* longer ones
InitCleanJson ==
    /\ InitService
    /\ storageEnabled
    /\ pure \in {CallOf("cleanJsonString", text) :
                    text \in SeqsUpTo(JsonTokens, MaxJsonLen) \cup LongerTexts}

NextCleanJson == CallCleanJsonString \/ CallCleanJsonStringAgain

SpecCleanJson == InitCleanJson /\ [][NextCleanJson]_vars

\* one getMoreDetails() call
\* the enrichment of loadBestPractices on every list of answers
InitEnrich ==
    /\ InitService
    /\ storageEnabled
    /\ pure \in {CallOf("loadBestPractices", answers) : answers \in AnswerLists}

SpecEnrich == InitEnrich /\ [][CallEnrich]_vars

\* parseImplementationModelResponse on every text of up to MaxPieces pieces
\* and on the responses made of headers with content
InitParse ==
    /\ InitService
    /\ pure \in {CallOf("parseImplementationModelResponse", text) :
                    text \in TextsUpTo(MaxPieces) \cup WellFormedTexts
                                 \cup TwoDigitTexts}

NextParse == CallParseImplementationModelResponse \/ CallSortSections

SpecParse == InitParse /\ [][NextParse]_vars

SpecDetails == Init /\ [][DetailsStep]_vars

(***************************************************************************)
(* Properties                                                              *)
(***************************************************************************)
RECURSIVE Flatten(_)
Flatten(groups) == IF groups = <<>> THEN <<>> ELSE Head(groups) \o Flatten(Tail(groups))

\* the planned question sequence of a run: the pillars in the caller's order,
\* each pillar's question groups in taxonomy order
Plan(a) == Flatten(a.pillarQuestionGroups)

Exited(a) == a.outcome # "none"

LastStatusWrite(a) == a.statusWrites[Len(a.statusWrites)]

\* C1: a run of analyze() that has written analysisStatus IN_PROGRESS does not
\* exit, by return or by throw, with IN_PROGRESS as the last status written.
C1_NeverLeftInProgress ==
    \A r \in Runs :
        (Exited(an[r]) /\ an[r].statusWrites # <<>>)
            => /\ LastStatusWrite(an[r]) # "IN_PROGRESS"
               /\ workItems[r].analysisStatus # "IN_PROGRESS"

\* C2: when analyze() exits with at least one result appended,
\* storeAnalysisResults has been called with the whole result list and has
\* settled; unless a storage call was rejected, the stored list is that list.
C2_ResultsStoredOnExit ==
    \A r \in Runs :
        (Exited(an[r]) /\ Len(an[r].results) > 0)
            => /\ an[r].storeCalls > 0
               /\ an[r].lastStoreArg = an[r].results
               /\ ~an[r].storageFault => analysisStore[r] = an[r].results

C2_Witness ==
    \E r \in Runs :
        /\ an[r].outcome = "returned"
        /\ an[r].callFault = "inference"
        /\ Len(an[r].results) = 2
        /\ analysisStore[r] = an[r].results

\* C3: once the checkpoint of a question has seen the cancellation signal,
\* the run makes no retrieval and no inference call for that question or a
\* later one, it stores the results accumulated so far and, unless a storage
\* call is rejected, marks the work item PARTIAL and returns isCancelled=true
\* with exactly those results.
C3_CancelAtCheckpoint ==
    \A r \in Runs :
        an[r].cancelObserved
            => /\ an[r].pc \in {"store", "update", "done"}
               /\ Len(an[r].retrievals) = Len(an[r].results)
               /\ Len(an[r].inferences) = Len(an[r].results)
               /\ an[r].lastStoreArg = an[r].results
               /\ (Exited(an[r]) /\ ~an[r].storageFault)
                     => /\ an[r].outcome = "returned"
                        /\ an[r].ret.isCancelled
                        /\ an[r].ret.results = an[r].results
                        /\ analysisStore[r] = an[r].results
                        /\ workItems[r].analysisStatus = "PARTIAL"

C3_Witness ==
    \E r \in Runs :
        /\ an[r].cancelObserved
        /\ an[r].outcome = "returned"
        /\ an[r].ret.isCancelled
        /\ Len(an[r].ret.results) = 1
        /\ an[r].totalQuestions = 3

\* C4: a cancellation requested after analyze() has started and before the
\* checkpoint of the first question makes the run return isCancelled=true
\* without any retrieval or inference call.
C4_EarlyCancelStopsRun ==
    \A r \in Runs :
        an[r].cancelUnheard
            => /\ an[r].retrievals = <<>>
               /\ an[r].inferences = <<>>
               /\ an[r].outcome = "returned" => an[r].ret.isCancelled

\* C5: a cancellation requested at any moment of a generateIacDocument() run
\* is seen by the next inference race: no model response is accepted after
\* it and the run returns isCancelled=true.
C5_CancelSeenByNextRace ==
    \A r \in Runs :
        gen[r].cancelUnheard
            => /\ ~gen[r].acceptedAfterCancel
               /\ gen[r].outcome = "returned" => gen[r].ret.isCancelled

\* C6: when the inference of question k >= 2 of n fails after k-1 questions
\* succeeded (and the storage calls of the error path succeed), analyze()
\* returns isCancelled=false, k-1 results and an error naming question k and
\* "k-1 out of n"; the work item is PARTIAL with progress round((k-1)/n*100).
C6_InferenceFailureAtK ==
    \A r \in Runs :
        LET a == an[r]
            k == a.failedAt
            n == a.totalQuestions
            progress == workItems[r].analysisProgress
        IN  (Exited(a) /\ a.callFault = "inference" /\ k >= 2 /\ ~a.storageFault)
                => /\ a.outcome = "returned"
                   /\ ~a.ret.isCancelled
                   /\ Len(a.ret.results) = k - 1
                   /\ a.ret.error.kind = "analyzing"
                   /\ a.ret.error.pillar = Plan(a)[k].pillar
                   /\ a.ret.error.title = Plan(a)[k].title
                   /\ a.ret.error.processed = k - 1
                   /\ a.ret.error.total = n
                   /\ n = Len(Plan(a))
                   /\ workItems[r].analysisStatus = "PARTIAL"
                   /\ 2 * n * progress <= 200 * (k - 1) + n
                   /\ 200 * (k - 1) + n < 2 * n * (progress + 1)

C6_Witness ==
    \E r \in Runs :
        /\ an[r].outcome = "returned"
        /\ an[r].callFault = "inference"
        /\ ~an[r].storageFault
        /\ an[r].failedAt = 3
        /\ an[r].totalQuestions = 3
        /\ workItems[r].analysisProgress = 67

\* C7: analysisStatus COMPLETED is written, with progress 100, only when
\* every question group of every requested pillar has a result and the stored
\* list has them all; a run that saw the cancellation signal or a retrieval
\* or inference failure never writes COMPLETED.
C7_CompletedMeansAll ==
    \A r \in Runs :
        workItems[r].analysisStatus = "COMPLETED"
            => /\ Len(an[r].results) = an[r].totalQuestions
               /\ an[r].totalQuestions = Len(Plan(an[r]))
               /\ \A k \in 1..Len(Plan(an[r])) :
                      an[r].results[k] = AnalysisOf(Plan(an[r])[k])
               /\ analysisStore[r] = an[r].results
               /\ workItems[r].analysisProgress = 100
               /\ ~an[r].cancelObserved
               /\ an[r].callFault = "none"

C7_Witness ==
    \E r \in Runs :
        /\ workItems[r].analysisStatus = "COMPLETED"
        /\ an[r].outcome = "returned"
        /\ Len(analysisStore[r]) = 4

C10_CacheKeyedByWorkload ==
    \A r \in Runs :
        an[r].cancelPromise # "none"
            => an[r].pillarQuestionGroups =
                   [p \in 1..Len(an[r].selectedPillars) |->
                       retrieveBestPractices(
                           EnrichedBestPractices(BaseBestPractices,
                                                 AnswerSummaries(an[r].workloadId)),
                           an[r].selectedPillars[p])]

\* C11: a generateIacDocument() run that returns cancelled has stored the
\* sorted sections under the cancellation note, has marked the work item
\* PARTIAL and returns that document, also when no section was accumulated
\* (storage enabled, no storage call rejected).
C11_CancelPersistsPartial ==
    \A r \in Runs :
        (/\ gen[r].outcome = "returned"
         /\ gen[r].ret.isCancelled
         /\ storageEnabled
         /\ ~gen[r].storageFault)
            => /\ gen[r].ret.content = Document("cancelled", SortByOrder(gen[r].allSections))
               /\ iacStore[r] = gen[r].ret.content
               /\ workItems[r].iacGenerationStatus = "PARTIAL"

\* C12: a failure inside the generation loop with at least one section
\* accumulated is returned, not thrown: the sections are stored under the
\* error note, the work item is PARTIAL and the call returns that document
\* with an error (no storage call rejected).
C12_LoopFailureWithSectionsReturned ==
    \A r \in Runs :
        (/\ Exited(gen[r])
         /\ gen[r].inferenceFault
         /\ ~gen[r].storageFault
         /\ Len(gen[r].allSections) > 0)
            => /\ gen[r].outcome = "returned"
               /\ ~gen[r].ret.isCancelled
               /\ gen[r].ret.error # NoError
               /\ gen[r].ret.content = Document("error", SortByOrder(gen[r].allSections))
               /\ iacStore[r] = gen[r].ret.content
               /\ workItems[r].iacGenerationStatus = "PARTIAL"

\* C13: a run that ends by sentinel detection returns the sections sorted by
\* order and leaves the work item COMPLETED at 100, not IN_PROGRESS.
C13_SentinelRunCompleted ==
    \A r \in Runs :
        (/\ gen[r].outcome = "returned"
         /\ gen[r].isComplete
         /\ ~gen[r].ret.isCancelled)
            => /\ gen[r].ret.content = Document("none", SortByOrder(gen[r].allSections))
               /\ gen[r].ret.error = NoError
               /\ workItems[r].iacGenerationStatus = "COMPLETED"
               /\ workItems[r].iacGenerationProgress = 100

\* the sections parsed from the first n responses of a run, in arrival order
RECURSIVE ParsedUpTo(_, _)
ParsedUpTo(responses, n) ==
    IF n = 0 THEN <<>>
    ELSE ParsedUpTo(responses, n - 1)
             \o parseImplementationModelResponse(responses[n]).sections

Range(seq) == {seq[k] : k \in 1..Len(seq)}

\* C14: a run that returns a completed document has issued exactly one
\* inference call per response received, the last response is the first one
\* with the sentinel, and the returned sections are the sections parsed from
\* all these responses, each once, in ascending order.
C14_SectionsUpToSentinel ==
    \A r \in Runs :
        (/\ gen[r].outcome = "returned"
         /\ ~gen[r].ret.isCancelled
         /\ gen[r].ret.error = NoError)
            => LET rs == gen[r].responses
                   n == Len(rs)
                   parsed == ParsedUpTo(rs, n)
                   doc == gen[r].ret.content
               IN  /\ n >= 1
                   /\ gen[r].invocations = n
                   /\ includes(rs[n], Sentinel)
                   /\ \A t \in 1..(n - 1) : ~includes(rs[t], Sentinel)
                   /\ doc.note = "none"
                   /\ Len(doc.sections) = Len(parsed)
                   /\ \A x \in Range(doc.sections) \cup Range(parsed) :
                          Cardinality({k \in 1..Len(doc.sections) : doc.sections[k] = x})
                              = Cardinality({k \in 1..Len(parsed) : parsed[k] = x})
                   /\ \A a, b \in 1..Len(doc.sections) :
                          a < b => doc.sections[a].order <= doc.sections[b].order

C14_Witness ==
    \E r \in Runs :
        /\ gen[r].outcome = "returned"
        /\ ~gen[r].ret.isCancelled
        /\ gen[r].ret.error = NoError
        /\ Len(gen[r].responses) = 3
        /\ gen[r].responses[1] = Header("2", "B") \o Body("y")
        /\ gen[r].responses[2] = Header("1", "A") \o Body("x")
        /\ gen[r].responses[3] = <<"x", Sentinel>>
        /\ Len(gen[r].ret.content.sections) = 2

\* C15: a generation run exits only after a response with the sentinel, a
\* cancellation seen by the race, or an error; a response without the
\* sentinel is followed by another iteration whatever the iteration count;
\* and once the sentinel has arrived or a cancellation was issued during an
\* inference call, the run eventually exits.
C15_LoopEndsOnlyBySentinelCancelOrError ==
    /\ [](\A r \in Runs :
            Exited(gen[r]) =>
                \/ gen[r].isComplete
                \/ gen[r].outcome = "returned" /\ gen[r].ret.isCancelled
                \/ gen[r].outcome = "returned" /\ gen[r].ret.error # NoError
                \/ gen[r].outcome = "thrown")
    /\ [][\A r \in Runs :
            (gen[r].pc = "delay" /\ ~gen[r].isComplete /\ gen'[r].pc # "delay")
                => /\ gen'[r].pc \in {"update", "invoke"}
                   /\ gen'[r].outcome = "none"
                   /\ gen'[r].progress = IF gen[r].iteration < 9
                                         THEN 10 * gen[r].iteration ELSE 90]_vars
    /\ \A r \in Runs :
            (gen[r].isComplete \/ gen[r].raceCancelled) ~> Exited(gen[r])

C15_Witness ==
    \E r \in Runs :
        /\ gen[r].pc = "delay"
        /\ gen[r].iteration = MaxIterations
        /\ gen[r].accepted = MaxIterations
        /\ ~gen[r].isComplete
        /\ ~Exited(gen[r])
        /\ ~gen[r].storageFault /\ ~gen[r].inferenceFault /\ ~gen[r].cancelUnheard

\* the items whose details were appended to the combined result
DetCompleted == {details.allDetails[k].item : k \in 1..Len(details.allDetails)}

\* C16: a failed item does not end getMoreDetails(): every not-applied item
\* is tried, the call returns the details of the items that completed, with
\* the warning exactly when some item failed and some item completed, and it
\* throws exactly when no item completed.
C16_ItemFailuresTolerated ==
    Exited(details) =>
        /\ details.outcome = "thrown" <=> details.allDetails = <<>>
        /\ details.outcome = "returned" =>
              /\ details.ret.content.items = details.allDetails
              /\ DetCompleted \cup details.failed = Range(details.filteredItems)
              /\ DetCompleted \cap details.failed = {}
              /\ details.ret.error # NoError <=> details.failed # {}
        /\ details.failed # {} =>
              /\ details.i = details.totalItems + 1
              /\ DetCompleted \cup details.failed = Range(details.filteredItems)

C16_Witness ==
    /\ details.outcome = "returned"
    /\ details.totalItems = 2
    /\ details.failed = {details.filteredItems[1]}
    /\ DetCompleted = {details.filteredItems[2]}
    /\ details.ret.error = [kind |-> "SomeItemsFailed"]

\* C17: a generateIacDocument() run returns cancelled only after a
\* cancelIaCGeneration() request, an analyze() run only after a
\* cancelAnalysis() request: a request on the other signal, whenever it
\* arrives, cancels nothing.
C17_SignalsIndependent ==
    \A r \in Runs :
        /\ (gen[r].outcome = "returned" /\ gen[r].ret.isCancelled) => gen[r].ownCancel
        /\ ~gen[r].ownCancel => ~gen[r].raceCancelled
        /\ (an[r].outcome = "returned" /\ an[r].ret.isCancelled)
               => an[r].cancelHeardAt # "none"
        /\ an[r].cancelHeardAt = "none" => an[r].cancelPromise # "resolved"

C17_Witness ==
    /\ gen["r2"].outcome = "returned"
    /\ gen["r2"].foreignCancel
    /\ ~gen["r2"].ret.isCancelled
    /\ gen["r2"].isComplete
    /\ an["r1"].outcome = "returned"
    /\ an["r1"].foreignCancel
    /\ ~an["r1"].ret.isCancelled
    /\ an["r1"].ret.error = NoError

\* the taxonomy entries of a call whose pillar name gives the slug asked for
MatchingEntries(input) ==
    SelectSeq(input.all,
              LAMBDA bp : ReplaceRuns(toLowerCase(bp.Pillar), Whitespace, "-")
                              = input.pillarId)

\* the position of the first entry of a question
FirstIndex(entries, title) ==
    CHOOSE i \in 1..Len(entries) :
        /\ entries[i].Question = title
        /\ \A j \in 1..(i - 1) : entries[j].Question # title

\* C18: in every group returned by retrieveBestPractices the names and the
\* ids have the same length and the i-th id is the id of the entry that gave
\* the i-th name; the groups hold exactly the entries of the pillar asked
\* for, one group per question, questions and practices in taxonomy order.
C18_GroupsAlignNamesAndIds ==
    (pure.fn = "retrieveBestPractices" /\ pure.calls = 1) =>
        LET entries == MatchingEntries(pure.input)
            groups == pure.output
        IN  /\ \A k \in 1..Len(groups) :
                  LET mine == SelectSeq(entries,
                                        LAMBDA bp : bp.Question = groups[k].title)
                  IN  /\ Len(groups[k].bestPractices) = Len(groups[k].bestPracticeIds)
                      /\ Len(groups[k].bestPractices) = Len(mine)
                      /\ Len(mine) > 0
                      /\ \A i \in 1..Len(mine) :
                            /\ groups[k].bestPractices[i] = mine[i].BestPractice
                            /\ groups[k].bestPracticeIds[i] = mine[i].bestPracticeId
            /\ \A i \in 1..Len(entries) :
                  \E k \in 1..Len(groups) : groups[k].title = entries[i].Question
            /\ \A k, l \in 1..Len(groups) :
                  k < l => FirstIndex(entries, groups[k].title)
                               < FirstIndex(entries, groups[l].title)

C18_Witness ==
    /\ pure.fn = "retrieveBestPractices"
    /\ pure.calls = 1
    /\ Len(pure.input.all) = 3
    /\ pure.input.all[1].Pillar # pure.input.all[3].Pillar
    /\ Len(pure.output) = 1
    /\ pure.output[1].title = Q1
    /\ pure.output[1].bestPractices = <<BPy, BPx>>
    /\ pure.output[1].bestPracticeIds = <<<<"c", "a", "2">>, <<"c", "a", "1">>>>

\* C19: the id computed by generateFallbackBestPracticeId holds only
\* lowercase letters, digits and single hyphens, neither starts nor ends with
\* a hyphen, and is left unchanged by a second application ("Foo Bar!"
\* gives "foo-bar").
C19_FallbackIdIdempotent ==
    (pure.fn = "generateFallbackBestPracticeId" /\ pure.calls >= 1) =>
        LET id == pure.output
        IN  /\ \A i \in 1..Len(id) : id[i] \in LowerAlnum \cup {"-"}
            /\ \A i \in 1..(Len(id) - 1) : ~(id[i] = "-" /\ id[i + 1] = "-")
            /\ Len(id) > 0 => id[1] # "-" /\ id[Len(id)] # "-"
            /\ pure.calls = 2 => pure.again = id
            /\ pure.input = FooBar => id = <<"f", "o", "o", "-", "b", "a", "r">>
            /\ pure.output = generateFallbackBestPracticeId(pure.input)

C19_Witness ==
    /\ pure.fn = "generateFallbackBestPracticeId"
    /\ pure.calls = 2
    /\ pure.input = FooBar
    /\ pure.output = <<"f", "o", "o", "-", "b", "a", "r">>
    /\ pure.again = pure.output

\* the positions of the capitalized boolean literals of a text
Capitals(str) == {k \in 1..Len(str) : str[k] \in {"True", "False"}}

\* position k follows a colon and whitespace
AfterColon(str, k) ==
    /\ k >= 3
    /\ str[k - 1] \in JsonWhitespace
    /\ RunStart(str, k - 1) >= 2
    /\ str[RunStart(str, k - 1) - 1] = ":"

\* ... and that colon directly follows a double quote
AfterQuotedColon(str, k) ==
    /\ AfterColon(str, k)
    /\ RunStart(str, k - 1) >= 3
    /\ str[RunStart(str, k - 1) - 2] = "\""

\* what cleanJsonString does, for comparison: applied to its own result it
\* changes nothing; a capitalized boolean literal is rewritten when it
\* follows whitespace and a colon that directly follows a double quote, and
\* is left as written after any other colon (whose whitespace is removed
\* instead).
CleanJsonLowersAfterQuotedColon ==
    (pure.fn = "cleanJsonString" /\ pure.calls >= 1) =>
        /\ pure.calls = 2 => pure.again = pure.output
        /\ (\A k \in Capitals(pure.input) : AfterQuotedColon(pure.input, k))
               => Capitals(pure.output) = {}
        /\ (indexOf(pure.input, "{") = 0 /\ indexOf(pure.input, "}") = 0)
               => Cardinality(Capitals(pure.output))
                      = Cardinality({k \in Capitals(pure.input) :
                                        ~AfterQuotedColon(pure.input, k)})

\* C20: cleanJsonString applied to its own result changes nothing, and a
\* text whose capitalized boolean literals all follow a colon and whitespace
\* comes out without capitalized literal.
C20_CleanJsonIdempotentLowersBooleans ==
    (pure.fn = "cleanJsonString" /\ pure.calls >= 1) =>
        /\ pure.calls = 2 => pure.again = pure.output
        /\ (\A k \in Capitals(pure.input) : AfterColon(pure.input, k))
               => Capitals(pure.output) = {}

\* the value of the digits n
OrderValue(n) == IF n = "1" THEN 1 ELSE 2

\* C21: the parser reports completion exactly when the response contains
\* the sentinel; for a response made of headers "# Section n - d", each
\* followed by content, it returns one section per header, in header order,
\* with order n, description d and that content.
C21_SectionPerHeader ==
    (pure.fn = "parseImplementationModelResponse" /\ pure.calls >= 1) =>
        /\ pure.output.isComplete = includes(pure.input, Sentinel)
        /\ \A hs \in HeaderSeqs, at \in 0..2 :
               pure.input = WellFormed(hs, at) =>
                   /\ pure.output.isComplete = (at \in 1..Len(hs))
                   /\ Len(pure.output.sections) = Len(hs)
                   /\ \A k \in 1..Len(hs) :
                          /\ pure.output.sections[k].order = OrderValue(hs[k].n)
                          /\ pure.output.sections[k].description = <<hs[k].d>>
                          /\ pure.output.sections[k].content = <<"x">>

C21_Witness ==
    /\ pure.fn = "parseImplementationModelResponse"
    /\ pure.calls = 1
    /\ pure.input = Header("1", "A") \o Body("x") \o Header("2", "B") \o Body("x")
                        \o <<Sentinel>>
    /\ pure.output.isComplete
    /\ Len(pure.output.sections) = 2
    /\ pure.output.sections[1].order = 1
    /\ pure.output.sections[2].description = <<"B">>

\* the positions of the section headers in the text the parser splits
HeaderPositions(content) ==
    LET cleanContent == trim(RemoveFirst(content, Sentinel))
    IN  {p \in 1..Len(cleanContent) : HeaderAt(cleanContent, p)}

NumberedHeaderPositions(content) ==
    LET cleanContent == trim(RemoveFirst(content, Sentinel))
    IN  {p \in 1..Len(cleanContent) : NumberedHeaderAt(cleanContent, p)}

\* what the parser does, for comparison: it returns one section per header
\* that carries a number, and none of them with the default order
ParserDropsUnnumberedSections ==
    (pure.fn = "parseImplementationModelResponse" /\ pure.calls >= 1) =>
        /\ Len(pure.output.sections) = Cardinality(NumberedHeaderPositions(pure.input))
        /\ \A k \in 1..Len(pure.output.sections) :
               pure.output.sections[k].order # DefaultOrder

\* C30: every section header of the output gives a section, in header
\* order, and the section of a header without number has order 999 and
\* sorts behind the numbered ones.
C30_UnnumberedSectionKept ==
    (pure.fn = "parseImplementationModelResponse" /\ pure.calls >= 1) =>
        LET headers == HeaderPositions(pure.input)
            numbered == NumberedHeaderPositions(pure.input)
        IN  /\ Len(pure.output.sections) = Cardinality(headers)
            /\ \A p \in headers \ numbered :
                   LET k == 1 + Cardinality({q \in headers : q < p})
                   IN  pure.output.sections[k].order = DefaultOrder
            /\ pure.calls = 2 =>
                   \A a, b \in 1..Len(pure.again) :
                       (pure.again[a].order = DefaultOrder
                            /\ pure.again[b].order # DefaultOrder) => b < a

\* C22: a cancellation requested while question k of a run is being
\* processed (k below the total) lets that question finish: when its calls
\* succeed its result is appended and counted, no call is made for question
\* k+1, and the run stores k results and, unless a storage call is
\* rejected, returns isCancelled=true with exactly k results.
C22_CancelLetsQuestionFinish ==
    \A r \in Runs :
        LET a == an[r]
            k == a.cancelHeardQuestion
        IN  (k >= 1 /\ k < a.totalQuestions /\ a.callFault = "none" /\ ~a.storageFault)
                => /\ Len(a.retrievals) = k
                   /\ Len(a.inferences) \in {k - 1, k}
                   /\ a.pc \in {"retrieve", "infer", "updateProgress", "store",
                                "update", "done"}
                   /\ a.pc \in {"retrieve", "infer"}
                         => Len(a.results) = k - 1 /\ a.processedQuestions = k - 1
                   /\ a.pc = "updateProgress"
                         => Len(a.results) = k /\ a.processedQuestions = k - 1
                   /\ a.pc \in {"store", "update", "done"}
                         => /\ a.cancelObserved
                            /\ Len(a.results) = k
                            /\ a.processedQuestions = k
                            /\ Len(a.inferences) = k
                            /\ a.lastStoreArg = a.results
                   /\ Exited(a)
                         => /\ a.outcome = "returned"
                            /\ a.ret.isCancelled
                            /\ Len(a.ret.results) = k

C22_Witness ==
    \E r \in Runs :
        /\ an[r].cancelHeardQuestion = 2
        /\ an[r].cancelHeardAt = "infer"
        /\ an[r].totalQuestions = 3
        /\ an[r].outcome = "returned"
        /\ an[r].ret.isCancelled
        /\ Len(an[r].ret.results) = 2

\* C23: the k-th retrieval call and the k-th inference call of a run are
\* for the k-th planned question, so no question is retrieved or inferred
\* twice; the question whose retrieval or inference fails is the last one a
\* call is made for, and no call is issued after the failure.
C23_NoRetryNoSkip ==
    /\ [](\A r \in Runs :
            LET a == an[r]
            IN  /\ Len(a.retrievals) <= Len(Plan(a))
                /\ \A k \in 1..Len(a.retrievals) : a.retrievals[k] = Plan(a)[k].title
                /\ Len(a.inferences) <= Len(a.retrievals)
                /\ \A k \in 1..Len(a.inferences) : a.inferences[k] = Plan(a)[k].title
                /\ a.callFault = "retrieval"
                      => /\ Len(a.retrievals) = Len(a.results) + 1
                         /\ Len(a.inferences) = Len(a.results)
                /\ a.callFault = "inference"
                      => /\ Len(a.retrievals) = Len(a.results) + 1
                         /\ Len(a.inferences) = Len(a.results) + 1
                /\ a.callFault # "none" => a.pc \in {"store", "update", "done"})
    /\ [][\A r \in Runs :
            (an[r].callFault # "none" /\ an'[r].pc # "idle")
                => /\ an'[r].retrievals = an[r].retrievals
                   /\ an'[r].inferences = an[r].inferences
                   /\ an'[r].callFault = an[r].callFault]_vars

C23_Witness ==
    \E r \in Runs :
        /\ an[r].callFault = "inference"
        /\ an[r].totalQuestions = 3
        /\ Len(an[r].inferences) = 2
        /\ Exited(an[r])

\* the question titles of the taxonomy for the pillars of a run: the pillars
\* in the caller's order, the questions of each pillar in the order of
\* their first entry in the taxonomy
PlannedTitles(a) ==
    Flatten([p \in 1..Len(a.selectedPillars) |->
                QuestionOrder(FilterByPillar(BaseBestPractices, a.selectedPillars[p]),
                              <<>>)])

\* C24: the results of a run are at every moment the results of the first
\* questions of the planned sequence, one per question and in that order,
\* and a step of the run leaves the list as it is or appends one result.
C24_ResultsPrefixOfPlan ==
    /\ [](\A r \in Runs :
            LET a == an[r]
                titles == PlannedTitles(a)
            IN  /\ Len(a.results) <= Len(titles)
                /\ \A k \in 1..Len(a.results) :
                       /\ a.results[k].question = titles[k]
                       /\ a.results[k] = AnalysisOf(Plan(a)[k])
                /\ a.outcome = "returned" => a.ret.results = a.results)
    /\ [][\A r \in Runs :
            an'[r].pc # "idle"
                => \/ an'[r].results = an[r].results
                   \/ /\ Len(an'[r].results) = Len(an[r].results) + 1
                      /\ SubSeq(an'[r].results, 1, Len(an[r].results)) = an[r].results]_vars

C24_Witness ==
    \E r \in Runs :
        /\ Len(an[r].selectedPillars) = 2
        /\ an[r].selectedPillars[1] = PillarSlug(PillarC)
        /\ Len(an[r].results) = 3
        /\ an[r].results[1].question = Q3
        /\ an[r].results[3].question = Q2

\* the progress events of a run other than the cancellation notice
QuestionEvents(a) ==
    SelectSeq(a.progressEvents, LAMBDA e : e.currentQuestion # <<"cancelled">>)

\* C25: the events of a run come in pairs per question: the first of
\* question k is emitted once its retrieval has succeeded, with the inference
\* call, and carries k-1; the second is emitted when the question is done
\* and carries k.  Every event carries the total computed before the first
\* question, and the processed counts never decrease nor exceed the total.
C25_ProgressEventsPerQuestion ==
    \A r \in Runs :
        LET a == an[r]
            events == QuestionEvents(a)
        IN  /\ Len(events) = Len(a.inferences) + a.processedQuestions
            /\ a.processedQuestions \in {Len(a.inferences) - 1, Len(a.inferences)}
            /\ \A m \in 1..Len(events) :
                   /\ events[m].processedQuestions = m \div 2
                   /\ events[m].currentQuestion = Plan(a)[(m + 1) \div 2].title
            /\ \A m \in 1..Len(a.progressEvents) :
                   /\ a.progressEvents[m].totalQuestions = SumLen(a.pillarQuestionGroups)
                   /\ a.progressEvents[m].totalQuestions = a.totalQuestions
                   /\ a.progressEvents[m].processedQuestions <= a.totalQuestions
                   /\ \A n \in 1..(m - 1) :
                          a.progressEvents[n].processedQuestions
                              <= a.progressEvents[m].processedQuestions

C25_Witness ==
    \E r \in Runs :
        /\ an[r].totalQuestions = 3
        /\ Len(an[r].progressEvents) = 6
        /\ an[r].progressEvents[5].processedQuestions = 2
        /\ an[r].progressEvents[6].processedQuestions = 3
        /\ an[r].outcome = "returned"

\* a run between two questions: the last write of analysisProgress is the
\* one that followed the latest successful question
BetweenQuestions(a) ==
    /\ a.workItem # "undefined"
    /\ a.pc \in {"retrieve", "infer"}
    /\ a.processedQuestions >= 1

\* what analyze() does, for comparison: the progress written after the k-th
\* success is computed before the count is incremented, from k-1
ProgressWrittenBeforeCount ==
    \A r \in Runs :
        BetweenQuestions(an[r])
            => workItems[r].analysisProgress
                   = RoundPercent(an[r].processedQuestions - 1, an[r].totalQuestions)

\* C26: the analysisProgress written to the work item right after the k-th
\* successful question of n is round(k/n*100).
C26_ProgressReflectsCompleted ==
    \A r \in Runs :
        BetweenQuestions(an[r])
            => workItems[r].analysisProgress
                   = RoundPercent(an[r].processedQuestions, an[r].totalQuestions)

C28_TaxonomyResolvedOnce ==
    /\ [][cachedBestPractices.loaded
             => cachedBestPractices'.bps = cachedBestPractices.bps]_vars
    /\ [][\A r \in Runs :
             (cachedBestPractices.loaded /\ an[r].pc = "markInProgress")
                 => /\ an'[r].fetches = an[r].fetches
                    /\ an'[r].pc \notin {"loadS3", "loadAnswers"}]_vars
    /\ [](\A r \in Runs : an[r].fetches <= 1)
    /\ [](\A r, q \in Runs :
            (/\ an[r].fetches = 0 /\ an[r].pillarQuestionGroups # <<>>
             /\ an[q].fetches = 0 /\ an[q].pillarQuestionGroups # <<>>)
                => an[r].pillarQuestionGroups = an[q].pillarQuestionGroups)

\* the choices recorded in the answers for a practice of a question, as
\* (answer, choice) positions; those without choice id do not count
RecordedChoices(answers, question, practice) ==
    {mn \in (1..Len(answers)) \X (1..MaxChoices + 1) :
        /\ answers[mn[1]].QuestionTitle = question
        /\ mn[2] <= Len(answers[mn[1]].Choices)
        /\ answers[mn[1]].Choices[mn[2]].Title = practice
        /\ answers[mn[1]].Choices[mn[2]].ChoiceId # <<>>}

\* the one recorded last
LastRecorded(choices) ==
    CHOOSE mn \in choices :
        \A kl \in choices : kl[1] < mn[1] \/ (kl[1] = mn[1] /\ kl[2] <= mn[2])

\* C29: the bestPracticeId of an enriched entry is the choice id recorded
\* in the answers for the entry's practice under the entry's question (the
\* one recorded last) when there is one, and the fallback id of
\* "question-practice" otherwise; a choice recorded under another question
\* is never used.
C29_ChoiceIdOfOwnQuestion ==
    (pure.fn = "loadBestPractices" /\ pure.calls = 1) =>
        /\ Len(pure.output) = Len(BaseBestPractices)
        /\ \A i \in 1..Len(BaseBestPractices) :
               LET bp == BaseBestPractices[i]
                   recorded == RecordedChoices(pure.input, bp.Question, bp.BestPractice)
               IN  pure.output[i].bestPracticeId =
                       IF recorded = {}
                       THEN generateFallbackBestPracticeId(
                                bp.Question \o <<"-">> \o bp.BestPractice)
                       ELSE LET mn == LastRecorded(recorded)
                            IN  pure.input[mn[1]].Choices[mn[2]].ChoiceId

C29_Witness ==
    /\ pure.fn = "loadBestPractices"
    /\ pure.calls = 1
    /\ Len(pure.input) = 2
    /\ pure.input[1].QuestionTitle = Q1
    /\ pure.input[1].Choices = <<[Title |-> BPx, ChoiceId |-> <<"c", "a">>]>>
    /\ pure.input[2].QuestionTitle = Q2
    /\ pure.input[2].Choices = <<[Title |-> BPx, ChoiceId |-> <<"c", "b">>]>>
    /\ pure.output[1].bestPracticeId = <<"c", "a">>
    /\ pure.output[2].bestPracticeId = <<"c", "b">>
    /\ pure.output[3].bestPracticeId = <<"q", "1", "-", "y">>

\* the sections of the given order, in the sequence they have in the list
OfOrder(sections, o) == SelectSeq(sections, LAMBDA sec : sec.order = o)

IsPrefix(short, long) ==
    Len(short) <= Len(long) /\ SubSeq(long, 1, Len(short)) = short

\* a document lists sections in non-decreasing order, those of one order in
\* the sequence of their arrival
InArrivalOrder(doc, arrival) ==
    /\ \A a, b \in 1..Len(doc.sections) :
           a < b => doc.sections[a].order <= doc.sections[b].order
    /\ \A k \in 1..Len(doc.sections) :
           IsPrefix(OfOrder(doc.sections, doc.sections[k].order),
                    OfOrder(arrival, doc.sections[k].order))

\* C31: the document a generation run has assembled, the document it has
\* stored and the document it returns list their sections in non-decreasing
\* order, sections of equal order in the sequence they arrived in; a
\* returned document holds every section that arrived.
C31_DocumentsSortedStable ==
    \A r \in Runs :
        LET arrival == ParsedUpTo(gen[r].responses, Len(gen[r].responses))
        IN  /\ InArrivalOrder(gen[r].content, arrival)
            /\ gen[r].pc # "idle" => InArrivalOrder(iacStore[r], arrival)
            /\ gen[r].outcome = "returned"
                  => /\ InArrivalOrder(gen[r].ret.content, arrival)
                     /\ Len(gen[r].ret.content.sections) = Len(arrival)

C31_Witness ==
    \E r \in Runs :
        /\ gen[r].outcome = "returned"
        /\ gen[r].ret.error = NoError
        /\ Len(gen[r].responses) = 3
        /\ gen[r].responses[1] = Header("2", "B") \o Body("y")
        /\ gen[r].responses[2] = Header("1", "B") \o Body("y")
        /\ gen[r].responses[3] = Header("1", "A") \o Body("x") \o <<Sentinel>>
        /\ Len(gen[r].ret.content.sections) = 3
        /\ gen[r].ret.content.sections[1].description = <<"B">>
        /\ gen[r].ret.content.sections[2].description = <<"A">>
        /\ gen[r].ret.content.sections[3].order = 2

\* Math.min(iteration * 10, 90), line 418
LoopProgress(iteration) == IF 10 * iteration < 90 THEN 10 * iteration ELSE 90

\* the progress events of the loop iterations: all but a closing 100
LoopEvents(events) == SelectSeq(events, LAMBDA e : e # 100)

\* C32: the progress emitted at the start of the i-th iteration, counted from
\* 0, is min(10 * i, 90): the emitted values never decrease and stay at or
\* below 90 while the loop runs; 100 is emitted once, last, and only after a
\* response with the sentinel has been accepted
C32_LoopProgressCappedAtNinety ==
    \A r \in Runs :
        LET events == gen[r].progressEvents
            looped == LoopEvents(events)
        IN  /\ \A m \in 1..Len(looped) : looped[m] = LoopProgress(m - 1)
            /\ \A m, n \in 1..Len(events) : m < n => events[m] <= events[n]
            /\ Len(looped) \in {gen[r].iteration, gen[r].iteration + 1}
            /\ \A m \in 1..Len(events) :
                   events[m] = 100
                       => /\ m = Len(events)
                          /\ m = Len(looped) + 1
                          /\ gen[r].isComplete
                          /\ gen[r].responses # <<>>
                          /\ includes(gen[r].responses[Len(gen[r].responses)], Sentinel)
            /\ gen[r].pc \in {"invoke", "delay"} /\ ~gen[r].isComplete
                   => gen[r].progress <= 90 /\ gen[r].progress = LoopProgress(gen[r].iteration - 1)

C32_Witness ==
    /\ gen["r1"].outcome = "returned"
    /\ Len(gen["r1"].progressEvents) = 12
    /\ gen["r1"].progressEvents[9] = 80
    /\ gen["r1"].progressEvents[10] = 90
    /\ gen["r1"].progressEvents[11] = 90
    /\ gen["r1"].progressEvents[12] = 100

\* the checkpoint write of run r has just succeeded
CheckpointStored(r) ==
    /\ gen[r].pc = "store"
    /\ gen[r].handler = "checkpoint"
    /\ gen'[r].pc = "delay"

\* C33: when a response lacks the sentinel, the checkpoint write stores the
\* partial document and leaves the work item as it was: the status is still
\* IN_PROGRESS and neither an error nor the partial-results flag is set; the
\* loop then goes on to the head of the next iteration and its inference call
C33_CheckpointKeepsStatus ==
    /\ [](\A r \in Runs :
              gen[r].handler = "checkpoint" /\ gen[r].pc \in {"store", "delay"}
                  => /\ ~gen[r].isComplete
                     /\ workItems[r].iacGenerationStatus = "IN_PROGRESS"
                     /\ workItems[r].iacGenerationError = NoError
                     /\ ~workItems[r].iacPartialResults)
    /\ [][\A r \in Runs :
              /\ CheckpointStored(r)
                    => /\ workItems' = workItems
                       /\ iacStore'[r] = gen[r].content
                       /\ gen'[r].allSections = gen[r].allSections
              /\ gen[r].pc = "delay" /\ ~gen[r].isComplete /\ gen'[r].pc # "delay"
                    => /\ gen'[r].pc \in {"update", "invoke"}
                       /\ gen'[r].pc = "update" => gen'[r].handler = "progress"
                       /\ gen'[r].allSections = gen[r].allSections
              /\ gen[r].pc = "update" /\ gen[r].handler = "progress" /\ gen'[r].pc = "invoke"
                    => gen'[r].invocations = gen[r].invocations + 1]_vars

C33_Witness ==
    /\ storageEnabled
    /\ gen["r1"].pc = "invoke"
    /\ gen["r1"].iteration = 2
    /\ gen["r1"].handler = "progress"
    /\ ~gen["r1"].storageFault
    /\ Len(iacStore["r1"].sections) = 1
    /\ iacStore["r1"].sections = gen["r1"].allSections
    /\ workItems["r1"].iacGenerationStatus = "IN_PROGRESS"
    /\ workItems["r1"].iacGenerationProgress = 10
    /\ ~workItems["r1"].iacPartialResults

\* C34: a cancellation request made while no run of its kind is active has
\* no effect on a run started afterwards: the run is cancelled only by a
\* request that arrives while it is subscribed
C34_EarlierCancelIsLost ==
    \A r \in Runs :
        /\ an[r].cancelledBefore /\ an[r].cancelHeardAt = "none"
              => /\ an[r].cancelPromise # "resolved"
                 /\ ~an[r].cancelObserved
                 /\ ~an[r].ret.isCancelled
                 /\ an[r].outcome = "returned"
                       => /\ an[r].ret.error = NoError
                          /\ Len(an[r].ret.results) = an[r].totalQuestions
                          /\ workItems[r].analysisStatus = "COMPLETED"
        /\ gen[r].cancelledBefore /\ ~gen[r].ownCancel
              => /\ ~gen[r].raceCancelled
                 /\ ~gen[r].ret.isCancelled
                 /\ gen[r].outcome = "returned" /\ storageEnabled
                       => workItems[r].iacGenerationStatus = "COMPLETED"

C34_Witness ==
    /\ an["r1"].cancelledBefore
    /\ an["r1"].cancelHeardAt = "none"
    /\ an["r1"].outcome = "returned"
    /\ Len(an["r1"].ret.results) = 2
    /\ ~an["r1"].ret.isCancelled
    /\ gen["r2"].cancelledBefore
    /\ ~gen["r2"].ownCancel
    /\ gen["r2"].outcome = "returned"
    /\ ~gen["r2"].ret.isCancelled
    /\ Len(gen["r2"].ret.content.sections) = 2

\* the request reached the analysis run while a question with a successor was
\* in progress: the run has a next checkpoint
HasNextCheckpoint(a) ==
    /\ a.cancelPromise = "resolved"
    /\ a.cancelHeardAt \in {"retrieve", "infer", "updateProgress"}
    /\ a.cancelHeardQuestion < a.totalQuestions

\* C35: a cancellation request is a broadcast: one cancelAnalysis() resolves
\* the promise of every analyze() run subscribed at that moment and one
\* cancelIaCGeneration() wins the race of every generateIacDocument() run
\* with an inference call in flight, whatever the run; each of these runs
\* returns isCancelled = true at its next checkpoint or race
C35_CancelIsBroadcast ==
    /\ [](\A r \in Runs :
              /\ HasNextCheckpoint(an[r]) /\ an[r].outcome # "none"
                    => /\ an[r].outcome = "returned"
                       /\ an[r].ret.isCancelled
                       /\ Len(an[r].ret.results) = an[r].cancelHeardQuestion
              /\ gen[r].ownCancel /\ gen[r].outcome # "none"
                    => /\ gen[r].outcome = "returned"
                       /\ gen[r].ret.isCancelled)
    /\ [][/\ (\E r \in Runs : an[r].cancelPromise = "pending"
                                /\ an'[r].cancelPromise = "resolved")
                => \A r \in Runs : an[r].cancelPromise = "pending" /\ an[r].outcome = "none"
                                       => an'[r].cancelPromise = "resolved"
          /\ (\E r \in Runs : ~gen[r].raceCancelled /\ gen'[r].raceCancelled)
                => \A r \in Runs : gen[r].pc = "invoke" /\ gen[r].outcome = "none"
                                       => gen'[r].raceCancelled
          /\ \A r \in Runs :
                 /\ gen[r].pc = "invoke" /\ gen[r].raceCancelled /\ gen'[r].pc # "invoke"
                       => gen'[r].pc \in {"store", "done"} /\ gen'[r].invocations = gen[r].invocations
                 /\ HasNextCheckpoint(an[r]) /\ an'[r].retrievals # an[r].retrievals
                       => FALSE]_vars

\* two analyze() runs cancelled by one request during their first question
C35_Witness ==
    \A r \in Runs :
        /\ an[r].outcome = "returned"
        /\ an[r].ret.isCancelled
        /\ an[r].cancelHeardQuestion = 1
        /\ Len(an[r].ret.results) = 1
        /\ ~an[r].cancelUnheard

\* C36: every progress percentage written to the work item by analyze() or
\* generateIacDocument(), on any path and with any number of accumulated
\* sections, is an integer between 0 and 100
C36_ProgressIsPercentage ==
    \A r \in Runs :
        /\ workItems[r].analysisProgress \in 0..100
        /\ workItems[r].iacGenerationProgress \in 0..100

\* C37: a cancellation requested while the last question of a run is being
\* processed is never observed: no checkpoint follows the last question, so
\* when that question and the final writes succeed the run stores all the
\* results, marks COMPLETED at 100 and returns isCancelled = false
C37_CancelDuringLastQuestionIgnored ==
    \A r \in Runs :
        LET a == an[r]
        IN  (a.totalQuestions >= 1 /\ a.cancelHeardQuestion = a.totalQuestions)
                => /\ a.cancelPromise = "resolved"
                   /\ ~a.cancelObserved
                   /\ ~a.ret.isCancelled
                   /\ Len(a.retrievals) = a.totalQuestions
                   /\ (a.callFault = "none" /\ ~a.storageFault /\ Exited(a))
                         => /\ a.outcome = "returned"
                            /\ a.ret.error = NoError
                            /\ Len(a.ret.results) = a.totalQuestions
                            /\ analysisStore[r] = a.ret.results
                            /\ workItems[r].analysisStatus = "COMPLETED"
                            /\ workItems[r].analysisProgress = 100
                            /\ ~workItems[r].analysisPartialResults

C37_Witness ==
    /\ an["r1"].cancelHeardQuestion = 2
    /\ an["r1"].totalQuestions = 2
    /\ an["r1"].cancelHeardAt = "infer"
    /\ an["r1"].outcome = "returned"
    /\ ~an["r1"].ret.isCancelled
    /\ Len(an["r1"].ret.results) = 2
    /\ workItems["r1"].analysisStatus = "COMPLETED"

\* C38: whenever analyze() returns a structured result, the number of results
\* returned and stored equals the processed-question count used for the
\* persisted progress and the error message, and the question named as the
\* failed one has no result in the list, even when a storage update fails
\* right after the append
C38_ResultsMatchProcessedCount ==
    \A r \in Runs :
        LET a == an[r]
        IN  a.outcome = "returned"
                => /\ Len(a.ret.results) = a.processedQuestions
                   /\ a.storeCalls > 0 => Len(a.lastStoreArg) = a.processedQuestions
                   /\ a.ret.error.kind = "analyzing"
                         => /\ a.ret.error.processed = Len(a.ret.results)
                            /\ \A k \in 1..Len(a.ret.results) :
                                   a.ret.results[k].question # a.ret.error.title

\* the question groups of run a when built from the taxonomy enriched with
\* the answers of its own workload
OwnQuestionGroups(a) ==
    [p \in 1..Len(a.selectedPillars) |->
        retrieveBestPractices(
            EnrichedBestPractices(BaseBestPractices, AnswerSummaries(a.workloadId)),
            a.selectedPillars[p])]

\* C39: when two analyze() runs start while the cache is empty, the taxonomy
\* and the workload answers are fetched at most once, and each run builds its
\* question groups from the taxonomy enriched with its own workload's ids
C39_ConcurrentLoadsFetchOnce ==
    /\ an["r1"].fetches + an["r2"].fetches <= 1
    /\ \A r \in Runs :
           an[r].pillarQuestionGroups # <<>>
               => an[r].pillarQuestionGroups = OwnQuestionGroups(an[r])

\* the turns are numbered upwards within the loop of one item
IsOneLoopText(text) ==
    /\ \A k \in 1..Len(text) : text[k] \in 1..MaxTurns
    /\ \A k, m \in 1..Len(text) : k < m => text[k] < text[m]

\* C40: in getMoreDetails() the combined content holds, in selection order
\* and each with its separator, the details of exactly the not-applied items
\* whose loop reached the completion sentinel; the text received for an item
\* that fails before its sentinel is discarded; a cancellation request does
\* not stop the loop
C40_CombinedDetailsOfCompletedItems ==
    /\ [](/\ \A k \in 1..Len(details.allDetails) :
                /\ details.allDetails[k].item \in Range(details.filteredItems)
                /\ IsOneLoopText(details.allDetails[k].text)
                /\ \A m \in 1..Len(details.allDetails) :
                       k < m => details.allDetails[k].item < details.allDetails[m].item
          /\ DetCompleted \cap details.failed = {}
          /\ details.discarded \subseteq details.failed
          /\ Exited(details) /\ details.i >= 1
                => /\ details.i = details.totalItems + 1
                   /\ DetCompleted \cup details.failed = Range(details.filteredItems)
          /\ details.outcome = "returned" => details.ret.content.items = details.allDetails)
    /\ [][/\ details'.allDetails # details.allDetails
                => /\ details.pc = "delay"
                   /\ details.isComplete
                   /\ details'.allDetails =
                          Append(details.allDetails,
                                 [item |-> details.filteredItems[details.i],
                                  text |-> details.itemDetails])
          /\ details.pc = "delay" /\ details.isComplete /\ details'.pc # "delay"
                => Len(details'.allDetails) = Len(details.allDetails) + 1
          /\ details'.cancelRequests # details.cancelRequests
                => /\ details'.pc = details.pc
                   /\ details'.i = details.i
                   /\ details'.allDetails = details.allDetails
                   /\ details'.itemDetails = details.itemDetails]_vars

\* the first item failed in its second turn, a cancellation was requested,
\* the second item completed in two turns
C40_Witness ==
    /\ details.outcome = "returned"
    /\ details.totalItems = 2
    /\ details.cancelRequests = 1
    /\ details.discarded = {details.filteredItems[1]}
    /\ details.allDetails = <<[item |-> details.filteredItems[2], text |-> <<1, 2>>]>>
    /\ details.ret.content.items = details.allDetails

====
